---------------------------- MODULE Spec2Model ----------------------------
(***************************************************************************)
(* A model of the ytree B+ tree engine (src/ytree.c, src/ytree.h).         *)
(*                                                                         *)
(* The heap is modelled explicitly: nodes live in a table indexed by node  *)
(* address, records are addresses in a disjoint range, NULL is 0.  Every   *)
(* node carries the two arrays of the C struct (keys, pointers) with all   *)
(* their slots, also the slots beyond num_keys, so that stale contents are *)
(* part of the state exactly as in the C program.                          *)
(*                                                                         *)
(* The C functions are operators on a machine state s (a record holding    *)
(* the database handle, the heap and the return value of the last call)    *)
(* and yield the machine state after the call.                             *)
(***************************************************************************)
EXTENDS Integers, Sequences, FiniteSets, TLC

(* ------------------------------ bounds -------------------------------- *)

\* Keys are drawn from 0 .. NumKeys-1.
NumKeys == 6

\* The orders a handle is configured with are MIN_ORDER .. TopOrder.
TopOrder == 4

(* ------------------------- program constants -------------------------- *)

DEFAULT_ORDER == 4

MIN_ORDER == 3

MAX_ORDER == 100

NULL == 0

(* ------------------------------ universe ------------------------------ *)

Keys == 0 .. (NumKeys - 1)

Orders == MIN_ORDER .. TopOrder

\* Node addresses.  A tree over n keys has at most n leaves and n-1 internal
\* nodes, and an insert allocates before anything is released.
NumNodes == 2 * NumKeys

NodeIds == 1 .. NumNodes

\* Record addresses: one spare record and one record per key, disjoint from
\* the nodes and from the hook.
SpareRec == NumNodes + 1

\* The address of the function main installs as release hook.
release_pointer == NumNodes + 2

RecOf(k) == NumNodes + 3 + k

RecIds == {RecOf(k) : k \in Keys} \cup {SpareRec}

VARIABLES
    order,      \* (*db)->order
    root,       \* (*db)->root
    node,       \* the heap of node_t objects, by address
    recs,       \* the record_t objects currently allocated
    err,        \* "ok", or why the process stopped (exit / undefined behaviour)
    ev,         \* the restructuring steps the last public call went through
    live,       \* history: key -> record handed to the insert that stored it
    release_callback,   \* the global release hook, NULL when none is set
    released,   \* the records the last public call invoked the hook for, in order
    db_freed,   \* TRUE once the handle *db has been freed
    script      \* the caller's program: what it still has to do, what it did

vars == <<order, root, node, recs, err, ev, live, release_callback, released, db_freed,
          script>>

(* ------------------------------ helpers ------------------------------- *)

Min(S) == CHOOSE x \in S : \A y \in S : x <= y

Max(S) == CHOOSE x \in S : \A y \in S : x >= y

\* A released (or never allocated) heap cell.
FreeNode ==
    [used |-> FALSE, is_leaf |-> FALSE, num_keys |-> 0,
     keys |-> <<>>, pointers |-> <<>>, parent |-> NULL]

\* The machine state the C functions work on.
Machine ==
    [order |-> order, root |-> root, node |-> node, recs |-> recs,
     err |-> err, ev |-> {}, ret |-> NULL,
     release_callback |-> release_callback, released |-> <<>>,
     db_freed |-> db_freed, calls |-> <<>>]

Fail(s, why) == IF s.err = "ok" THEN [s EXCEPT !.err = why] ELSE s

Note(s, what) == [s EXCEPT !.ev = @ \cup {what}]

\* History of a public call: the internal function fn is entered ("call") or
\* left ("return") with these arguments, the root and the heap being as they
\* and the allocated records being as they are at that moment.
Trace(s, fn, at, args) ==
    [s EXCEPT !.calls = Append(@, [fn |-> fn, at |-> at, args |-> args,
                                   root |-> s.root, node |-> s.node,
                                   recs |-> s.recs])]

\* Faulty variant of cut: the half is rounded down.
cut_floor(length) == length \div 2

cut(length) ==
    IF length % 2 = 0 THEN length \div 2 ELSE length \div 2 + 1

\* free() of a node with its two arrays.
free_node(s, n) ==
    IF n \in NodeIds /\ s.node[n].used
    THEN [s EXCEPT !.node[n] = FreeNode]
    ELSE Fail(s, "bad free of node")

\* The value_type make_record gave a record: the caller stores blobs
\* (ytree_new_data) under even keys and integers (ytree_new_int) under odd
\* keys; the spare record is a blob.
value_type(r) ==
    IF r = SpareRec \/ (r - RecOf(0)) % 2 = 0 THEN "DT_DATA" ELSE "DT_INT"

is_data(r) == value_type(r) = "DT_DATA"

\* free() of a record.
free_record(s, r) ==
    IF r \in s.recs
    THEN [s EXCEPT !.recs = @ \ {r}]
    ELSE Fail(s, "bad free of record")

(* ------------------------------- search ------------------------------- *)

\* Faulty variant of child_index: a key equal to a separator goes left (key > keys[i]).
child_index_ties_left(nd, key) ==
    LET stop == {i \in 0 .. (nd.num_keys - 1) : ~(key > nd.keys[i])}
    IN  IF stop = {} THEN nd.num_keys ELSE Min(stop)

\* The inner loop of find_leaf: the child slot taken at internal node c.
child_index(nd, key) ==
    LET stop == {i \in 0 .. (nd.num_keys - 1) : ~(key >= nd.keys[i])}
    IN  IF stop = {} THEN nd.num_keys ELSE Min(stop)

RECURSIVE descend(_, _, _)
descend(s, c, key) ==
    IF s.node[c].is_leaf
    THEN c
    ELSE descend(s, s.node[c].pointers[child_index(s.node[c], key)], key)

find_leaf(s, key) ==
    IF s.root = NULL THEN NULL ELSE descend(s, s.root, key)

\* Faulty variant of ytree_find: the "not found" test after the scan is missing.
ytree_find_unchecked(s, key) ==
    LET c == find_leaf(s, key)
    IN  IF c = NULL
        THEN NULL
        ELSE LET hit == {i \in 0 .. (s.node[c].num_keys - 1) : s.node[c].keys[i] = key}
             IN  s.node[c].pointers[IF hit = {} THEN s.node[c].num_keys ELSE Min(hit)]

ytree_find(s, key) ==
    LET c == find_leaf(s, key)
    IN  IF c = NULL
        THEN NULL
        ELSE LET hit == {i \in 0 .. (s.node[c].num_keys - 1) : s.node[c].keys[i] = key}
             IN  IF hit = {} THEN NULL ELSE s.node[c].pointers[Min(hit)]

RECURSIVE leftmost(_, _)
leftmost(s, c) ==
    IF s.node[c].is_leaf THEN c ELSE leftmost(s, s.node[c].pointers[0])

RECURSIVE spine(_, _)
spine(s, c) ==
    IF s.node[c].is_leaf THEN 0 ELSE 1 + spine(s, s.node[c].pointers[0])

\* Faulty variant of ytree_height: counts the nodes on the leftmost path, not the edges.
ytree_height_in_nodes(s) ==
    IF s.root = NULL THEN 0 ELSE 1 + spine(s, s.root)

ytree_height(s) ==
    IF s.root = NULL THEN 0 ELSE spine(s, s.root)

\* The walk of ytree_count along the next-leaf slot.  A walk that never ends
\* (a cyclic chain) or that leaves the allocated nodes is reported as -1.
RECURSIVE chain_count(_, _, _)
chain_count(s, c, fuel) ==
    IF fuel = 0 \/ c \notin NodeIds \/ ~s.node[c].used
    THEN -1
    ELSE LET nxt == s.node[c].pointers[s.order - 1]
         IN  IF nxt # NULL
             THEN LET rest == chain_count(s, nxt, fuel - 1)
                  IN  IF rest < 0 THEN -1 ELSE s.node[c].num_keys + rest
             ELSE s.node[c].num_keys

ytree_count(s) ==
    IF s.root = NULL THEN 0 ELSE chain_count(s, leftmost(s, s.root), NumNodes + 1)

ytree_db_empty(s) == s.root = NULL

\* The while loop of find_range: from slot i of leaf n on, the pairs with a
\* key <= key_end are appended; the scan of a leaf stops at its first key
\* above key_end and goes on at slot 0 of the next leaf, until the chain ends.
RECURSIVE collect_range(_, _, _, _, _)
collect_range(s, n, i, key_end, fuel) ==
    IF n = NULL \/ fuel = 0 \/ n \notin NodeIds
    THEN <<>>
    ELSE LET nd == s.node[n]
             over == {j \in i .. (nd.num_keys - 1) : ~(nd.keys[j] <= key_end)}
             stop == IF over = {} THEN nd.num_keys ELSE Min(over)
         IN  IF ~nd.used
             THEN <<>>
             ELSE [j \in 1 .. (stop - i) |-> <<nd.keys[i + j - 1], nd.pointers[i + j - 1]>>]
                  \o collect_range(s, nd.pointers[s.order - 1], 0, key_end, fuel - 1)

\* The pairs (returned_keys[j], returned_pointers[j]), j < num_found.
find_range(s, key_start, key_end) ==
    LET n == find_leaf(s, key_start)
    IN  IF n = NULL
        THEN <<>>
        ELSE LET nd == s.node[n]
                 from == {j \in 0 .. (nd.num_keys - 1) : ~(nd.keys[j] < key_start)}
                 i == IF from = {} THEN nd.num_keys ELSE Min(from)
             IN  IF i = nd.num_keys
                 THEN <<>>
                 ELSE collect_range(s, n, i, key_end, NumNodes + 1)

(* ------------------------------ insertion ----------------------------- *)

\* calloc returns some unused address; addresses are only compared for
\* equality, so the lowest unused one stands for any of them.
new_address(s) ==
    LET unused == {n \in NodeIds : ~s.node[n].used}
    IN  IF unused = {} THEN NULL ELSE Min(unused)

make_node_raw(s, is_leaf) ==
    LET n == new_address(s)
    IN  IF n = NULL
        THEN Fail(s, "out of memory")
        ELSE [s EXCEPT !.node[n] =
                [used |-> TRUE, is_leaf |-> is_leaf, num_keys |-> 0,
                 keys |-> [i \in 0 .. (s.order - 2) |-> 0],
                 pointers |-> [i \in 0 .. (s.order - 1) |-> NULL],
                 parent |-> NULL],
              !.ret = n]

get_left_index(parent, left) ==
    LET stop == {i \in 0 .. parent.num_keys : parent.pointers[i] = left}
    IN  IF stop = {} THEN parent.num_keys + 1 ELSE Min(stop)

\* Faulty variant of insert_into_leaf: the pair is appended, no insertion point sought.
insert_into_leaf_appending(s, leaf, key, pointer) ==
    LET nd == s.node[leaf]
    IN  [s EXCEPT
            !.node[leaf].keys[nd.num_keys] = key,
            !.node[leaf].pointers[nd.num_keys] = pointer,
            !.node[leaf].num_keys = @ + 1,
            !.ret = leaf]

insert_into_leaf(s, leaf, key, pointer) ==
    LET nd == s.node[leaf]
        stop == {i \in 0 .. (nd.num_keys - 1) : ~(nd.keys[i] < key)}
        insertion_point == IF stop = {} THEN nd.num_keys ELSE Min(stop)
    IN  [s EXCEPT
            !.node[leaf].keys =
                [i \in DOMAIN nd.keys |->
                    IF i = insertion_point THEN key
                    ELSE IF i > insertion_point /\ i <= nd.num_keys THEN nd.keys[i - 1]
                    ELSE nd.keys[i]],
            !.node[leaf].pointers =
                [i \in DOMAIN nd.pointers |->
                    IF i = insertion_point THEN pointer
                    ELSE IF i > insertion_point /\ i <= nd.num_keys THEN nd.pointers[i - 1]
                    ELSE nd.pointers[i]],
            !.node[leaf].num_keys = @ + 1,
            !.ret = leaf]

\* Faulty variant of insert_into_new_root: the separator is taken from the left node.
insert_into_new_root_left_key(s, left, key, right) ==
    LET s1 == make_node_raw(s, FALSE)
        r == s1.ret
    IN  IF s1.err # "ok"
        THEN s1
        ELSE [Note(s1, "insert_into_new_root") EXCEPT
                !.node[r].keys[0] = s.node[left].keys[0],
                !.node[r].pointers[0] = left,
                !.node[r].pointers[1] = right,
                !.node[r].num_keys = @ + 1,
                !.node[r].parent = NULL,
                !.node[left].parent = r,
                !.node[right].parent = r,
                !.ret = r]

\* Faulty variant of insert_into_new_root: the right node keeps its old parent.
insert_into_new_root_right_orphan(s, left, key, right) ==
    LET s1 == make_node_raw(s, FALSE)
        r == s1.ret
    IN  IF s1.err # "ok"
        THEN s1
        ELSE [Note(s1, "insert_into_new_root") EXCEPT
                !.node[r].keys[0] = key,
                !.node[r].pointers[0] = left,
                !.node[r].pointers[1] = right,
                !.node[r].num_keys = @ + 1,
                !.node[r].parent = NULL,
                !.node[left].parent = r,
                !.ret = r]

insert_into_new_root(s, left, key, right) ==
    LET s1 == make_node_raw(s, FALSE)
        r == s1.ret
    IN  IF s1.err # "ok"
        THEN s1
        ELSE [Note(s1, "insert_into_new_root") EXCEPT
                !.node[r].keys[0] = key,
                !.node[r].pointers[0] = left,
                !.node[r].pointers[1] = right,
                !.node[r].num_keys = @ + 1,
                !.node[r].parent = NULL,
                !.node[left].parent = r,
                !.node[right].parent = r,
                !.ret = r]

insert_into_node(s, n, left_index, key, right) ==
    LET nd == s.node[n]
    IN  [s EXCEPT
            !.node[n].pointers =
                [i \in DOMAIN nd.pointers |->
                    IF i = left_index + 1 THEN right
                    ELSE IF i > left_index + 1 /\ i <= nd.num_keys + 1 THEN nd.pointers[i - 1]
                    ELSE nd.pointers[i]],
            !.node[n].keys =
                [i \in DOMAIN nd.keys |->
                    IF i = left_index THEN key
                    ELSE IF i > left_index /\ i <= nd.num_keys THEN nd.keys[i - 1]
                    ELSE nd.keys[i]],
            !.node[n].num_keys = @ + 1,
            !.ret = s.root]

RECURSIVE insert_into_parent(_, _, _, _)

insert_into_node_after_splitting(s0, old_node, left_index, key, right) ==
    LET s == Trace(s0, "insert_into_node_after_splitting", "call",
                   [old_node |-> old_node, left_index |-> left_index,
                    key |-> key, right |-> right])
        od == s.node[old_node]
        \* temp_pointers has order+1 slots, temp_keys has order slots (calloc).
        temp_pointers ==
            [j \in 0 .. s.order |->
                IF j = left_index + 1 THEN right
                ELSE IF j < left_index + 1
                     THEN (IF j <= od.num_keys THEN od.pointers[j] ELSE NULL)
                     ELSE (IF j - 1 <= od.num_keys THEN od.pointers[j - 1] ELSE NULL)]
        temp_keys ==
            [j \in 0 .. (s.order - 1) |->
                IF j = left_index THEN key
                ELSE IF j < left_index
                     THEN (IF j < od.num_keys THEN od.keys[j] ELSE 0)
                     ELSE (IF j - 1 < od.num_keys THEN od.keys[j - 1] ELSE 0)]
        split == cut(s.order)
        s1 == make_node_raw(s, FALSE)
        new_node == s1.ret
        k_prime == temp_keys[split - 1]
        new_num == s.order - split
        new_pointers ==
            [j \in 0 .. (s.order - 1) |->
                IF j <= new_num THEN temp_pointers[split + j] ELSE NULL]
        new_keys ==
            [j \in 0 .. (s.order - 2) |->
                IF j < new_num THEN temp_keys[split + j] ELSE 0]
        moved == {new_pointers[j] : j \in 0 .. new_num}
        s2 == [Note(s1, "insert_into_node_after_splitting") EXCEPT
                !.node = [m \in NodeIds |->
                    IF m = old_node
                    THEN [od EXCEPT
                            !.num_keys = split - 1,
                            !.pointers = [i \in DOMAIN od.pointers |->
                                IF i <= split - 1 THEN temp_pointers[i] ELSE od.pointers[i]],
                            !.keys = [i \in DOMAIN od.keys |->
                                IF i < split - 1 THEN temp_keys[i] ELSE od.keys[i]]]
                    ELSE IF m = new_node
                    THEN [s1.node[m] EXCEPT
                            !.num_keys = new_num,
                            !.pointers = new_pointers,
                            !.keys = new_keys,
                            !.parent = od.parent]
                    ELSE IF m \in moved
                    THEN [s1.node[m] EXCEPT !.parent = new_node]
                    ELSE s1.node[m]]]
    IN  IF left_index > od.num_keys
        THEN Fail(s, "write past temp_pointers")
        ELSE IF s1.err # "ok"
        THEN s1
        ELSE insert_into_parent(s2, old_node, k_prime, new_node)

insert_into_parent(s0, left, key, right) ==
    LET s == Trace(s0, "insert_into_parent", "call",
                   [left |-> left, key |-> key, right |-> right])
        parent == s.node[left].parent
        left_index == get_left_index(s.node[parent], left)
    IN  IF parent = NULL
        THEN insert_into_new_root(s, left, key, right)
        ELSE IF s.node[parent].num_keys < s.order - 1
        THEN insert_into_node(s, parent, left_index, key, right)
        ELSE insert_into_node_after_splitting(s, parent, left_index, key, right)

insert_into_leaf_after_splitting(s0, leaf, key, pointer) ==
    LET s == Trace(s0, "insert_into_leaf_after_splitting", "call",
                   [leaf |-> leaf, key |-> key, pointer |-> pointer])
        s1 == make_node_raw(s, TRUE)
        new_leaf == s1.ret
        ld == s.node[leaf]
        stop == {i \in 0 .. (s.order - 2) : ~(ld.keys[i] < key)}
        insertion_index == IF stop = {} THEN s.order - 1 ELSE Min(stop)
        \* temp_keys and temp_pointers have order slots each (calloc).
        temp_keys ==
            [j \in 0 .. (s.order - 1) |->
                IF j = insertion_index THEN key
                ELSE IF j < insertion_index
                     THEN (IF j < ld.num_keys THEN ld.keys[j] ELSE 0)
                     ELSE (IF j - 1 < ld.num_keys THEN ld.keys[j - 1] ELSE 0)]
        temp_pointers ==
            [j \in 0 .. (s.order - 1) |->
                IF j = insertion_index THEN pointer
                ELSE IF j < insertion_index
                     THEN (IF j < ld.num_keys THEN ld.pointers[j] ELSE NULL)
                     ELSE (IF j - 1 < ld.num_keys THEN ld.pointers[j - 1] ELSE NULL)]
        split == cut(s.order - 1)
        new_num == s.order - split
        s2 == [Note(s1, "insert_into_leaf_after_splitting") EXCEPT
                !.node[leaf] =
                    [ld EXCEPT
                        !.num_keys = split,
                        !.keys = [i \in DOMAIN ld.keys |->
                            IF i < split THEN temp_keys[i] ELSE ld.keys[i]],
                        !.pointers = [i \in DOMAIN ld.pointers |->
                            IF i = s.order - 1 THEN new_leaf
                            ELSE IF i < split THEN temp_pointers[i]
                            ELSE NULL]],
                !.node[new_leaf] =
                    [s1.node[new_leaf] EXCEPT
                        !.num_keys = new_num,
                        !.keys = [j \in DOMAIN @ |->
                            IF j < new_num THEN temp_keys[split + j] ELSE 0],
                        !.pointers = [j \in DOMAIN @ |->
                            IF j = s.order - 1 THEN ld.pointers[s.order - 1]
                            ELSE IF j < new_num THEN temp_pointers[split + j]
                            ELSE NULL],
                        !.parent = ld.parent]]
    IN  IF s1.err # "ok"
        THEN s1
        ELSE insert_into_parent(s2, leaf, s2.node[new_leaf].keys[0], new_leaf)

start_new_tree(s, key, pointer) ==
    LET s1 == make_node_raw(s, TRUE)
        r == s1.ret
    IN  IF s1.err # "ok"
        THEN s1
        ELSE [s1 EXCEPT
                !.node[r].keys[0] = key,
                !.node[r].pointers[0] = pointer,
                !.node[r].pointers[s.order - 1] = NULL,
                !.node[r].parent = NULL,
                !.node[r].num_keys = @ + 1,
                !.ret = r]

\* (*db)->root = f(...): the assignment of a returned root to the handle.
set_root(s) == IF s.err = "ok" THEN [s EXCEPT !.root = s.ret] ELSE s

\* ytree_insert past its duplicate test: the key is not in the tree.
insert_absent(s, key, pointer) ==
    IF s.root = NULL
    THEN set_root(start_new_tree(s, key, pointer))
    ELSE LET leaf == find_leaf(s, key)
         IN  IF s.node[leaf].num_keys < s.order - 1
             THEN insert_into_leaf(s, leaf, key, pointer)
             ELSE set_root(insert_into_leaf_after_splitting(s, leaf, key, pointer))

\* Faulty variant of ytree_insert: the duplicate test is missing.
ytree_insert_unguarded(s, key, pointer) == insert_absent(s, key, pointer)

\* Faulty variant of ytree_insert: a duplicate key has its record replaced by the new one.
ytree_insert_replacing(s, key, pointer) ==
    IF ytree_find(s, key) # NULL
    THEN LET c == find_leaf(s, key)
             i == Min({j \in 0 .. (s.node[c].num_keys - 1) : s.node[c].keys[j] = key})
         IN  [s EXCEPT !.node[c].pointers[i] = pointer]
    ELSE insert_absent(s, key, pointer)

ytree_insert(s, key, pointer) ==
    IF ytree_find(s, key) # NULL
    THEN s
    ELSE insert_absent(s, key, pointer)

(* ------------------------------ deletion ------------------------------ *)

\* Faulty variant of get_neighbor_index: the search starts at slot 1.
get_neighbor_index_from_one(s, n) ==
    LET pd == s.node[s.node[n].parent]
        hit == {i \in 1 .. pd.num_keys : pd.pointers[i] = n}
    IN  IF hit = {} THEN -2 ELSE Min(hit) - 1

\* The index of n's left sibling in its parent, -1 for the leftmost child,
\* -2 when the parent holds no pointer to n (the C function then exits).
get_neighbor_index(s, n) ==
    LET pd == s.node[s.node[n].parent]
        hit == {i \in 0 .. pd.num_keys : pd.pointers[i] = n}
    IN  IF hit = {} THEN -2 ELSE Min(hit) - 1

\* Faulty variant of tidy_pointers: the loop over an internal node starts one
\* slot too early, at num_keys.
tidy_pointers_from_num_keys(ord, is_leaf, num1, pointers1) ==
    [i \in DOMAIN pointers1 |->
        IF is_leaf
        THEN (IF i >= num1 /\ i < ord - 1 THEN NULL ELSE pointers1[i])
        ELSE (IF i >= num1 THEN NULL ELSE pointers1[i])]

\* Faulty variant of tidy_pointers: the loop over a leaf runs one slot too far.
tidy_pointers_one_too_far(ord, is_leaf, num1, pointers1) ==
    [i \in DOMAIN pointers1 |->
        IF is_leaf
        THEN (IF i >= num1 /\ i < ord THEN NULL ELSE pointers1[i])
        ELSE (IF i >= num1 + 1 THEN NULL ELSE pointers1[i])]

\* The last loops of remove_entry_from_node: the slots that are no longer
\* used are set to NULL; a leaf keeps its last slot, the next-leaf pointer.
tidy_pointers(ord, is_leaf, num1, pointers1) ==
    [i \in DOMAIN pointers1 |->
        IF is_leaf
        THEN (IF i >= num1 /\ i < ord - 1 THEN NULL ELSE pointers1[i])
        ELSE (IF i >= num1 + 1 THEN NULL ELSE pointers1[i])]

remove_entry_from_node(s, n, key, pointer) ==
    LET nd == s.node[n]
        \* while (n->keys[i] != key) i++;  -- the scan is not bounded by num_keys
        khit == {i \in DOMAIN nd.keys : nd.keys[i] = key}
        ki == Min(khit)
        keys1 ==
            [i \in DOMAIN nd.keys |->
                IF i >= ki /\ i + 1 < nd.num_keys THEN nd.keys[i + 1] ELSE nd.keys[i]]
        num_pointers == IF nd.is_leaf THEN nd.num_keys ELSE nd.num_keys + 1
        \* while (n->pointers[i] != pointer) i++;  -- nor is this one
        phit == {i \in DOMAIN nd.pointers : nd.pointers[i] = pointer}
        pi == Min(phit)
        pointers1 ==
            [i \in DOMAIN nd.pointers |->
                IF i >= pi /\ i + 1 < num_pointers THEN nd.pointers[i + 1] ELSE nd.pointers[i]]
        num1 == nd.num_keys - 1
        pointers2 == tidy_pointers(s.order, nd.is_leaf, num1, pointers1)
    IN  IF khit = {}
        THEN Fail(s, "key scan past the keys array")
        ELSE IF phit = {}
        THEN Fail(s, "pointer scan past the pointers array")
        ELSE [(IF ki < nd.num_keys /\ pi < num_pointers
               THEN s
               ELSE Note(s, "remove_entry_from_node beyond num_keys")) EXCEPT
                !.node[n].keys = keys1,
                !.node[n].pointers = pointers2,
                !.node[n].num_keys = num1,
                !.ret = n]

\* Faulty variant of adjust_root: a leaf root that lost its last key stays the root.
adjust_root_keeping_leaf(s) ==
    LET rd == s.node[s.root]
        new_root == rd.pointers[0]
    IN  IF rd.num_keys > 0 \/ rd.is_leaf
        THEN [s EXCEPT !.ret = s.root]
        ELSE [free_node([Note(s, "adjust_root") EXCEPT !.node[new_root].parent = NULL],
                        s.root)
                EXCEPT !.ret = new_root]

\* Faulty variant of adjust_root: the promoted child keeps its parent pointer.
adjust_root_keeping_parent(s) ==
    LET rd == s.node[s.root]
        new_root == rd.pointers[0]
    IN  IF rd.num_keys > 0
        THEN [s EXCEPT !.ret = s.root]
        ELSE IF ~rd.is_leaf
        THEN [free_node(Note(s, "adjust_root"), s.root) EXCEPT !.ret = new_root]
        ELSE [free_node(Note(s, "adjust_root"), s.root) EXCEPT !.ret = NULL]

adjust_root(s) ==
    LET rd == s.node[s.root]
        new_root == rd.pointers[0]
    IN  IF rd.num_keys > 0
        THEN [s EXCEPT !.ret = s.root]
        ELSE IF ~rd.is_leaf
        THEN [free_node([Note(s, "adjust_root") EXCEPT !.node[new_root].parent = NULL],
                        s.root)
                EXCEPT !.ret = new_root]
        ELSE [free_node(Note(s, "adjust_root"), s.root) EXCEPT !.ret = NULL]

\* Faulty variant of new_separator: the key the neighbor gives away is taken
\* in every case.
new_separator_moved_key(bd, is_leaf, neighbor_index) ==
    IF neighbor_index # -1 THEN bd.keys[bd.num_keys - 1] ELSE bd.keys[0]

\* The key redistribute_nodes stores at n->parent->keys[k_prime_index], read
\* from the neighbor bd as it is before the move.
new_separator(bd, is_leaf, neighbor_index) ==
    IF neighbor_index # -1 THEN bd.keys[bd.num_keys - 1]
    ELSE IF is_leaf THEN bd.keys[1]
    ELSE bd.keys[0]

redistribute_nodes(s, n, neighbor, neighbor_index, k_prime_index, k_prime) ==
    LET nd == s.node[n]
        bd == s.node[neighbor]
        p == nd.parent
        nk == nd.num_keys
        bk == bd.num_keys
    IN  IF neighbor_index # -1
        THEN \* the neighbor is on the left: its last pair moves to the front of n
             LET ptrs0 == IF ~nd.is_leaf
                          THEN [nd.pointers EXCEPT ![nk + 1] = nd.pointers[nk]]
                          ELSE nd.pointers
                 keysS == [i \in DOMAIN nd.keys |->
                             IF i >= 1 /\ i <= nk THEN nd.keys[i - 1] ELSE nd.keys[i]]
                 ptrsS == [i \in DOMAIN ptrs0 |->
                             IF i >= 1 /\ i <= nk THEN ptrs0[i - 1] ELSE ptrs0[i]]
             IN  IF ~nd.is_leaf
                 THEN LET moved == bd.pointers[bk]
                      IN  [Note(s, "redistribute_nodes") EXCEPT
                             !.node = [m \in NodeIds |->
                                LET c0 == IF m = moved
                                          THEN [s.node[m] EXCEPT !.parent = n]
                                          ELSE s.node[m]
                                    c1 == IF m = n
                                          THEN [c0 EXCEPT
                                                  !.keys = [keysS EXCEPT ![0] = k_prime],
                                                  !.pointers = [ptrsS EXCEPT ![0] = moved],
                                                  !.num_keys = nk + 1]
                                          ELSE c0
                                    c2 == IF m = neighbor
                                          THEN [c1 EXCEPT
                                                  !.pointers[bk] = NULL,
                                                  !.num_keys = @ - 1]
                                          ELSE c1
                                IN  IF m = p
                                    THEN [c2 EXCEPT !.keys[k_prime_index] =
                                            new_separator(bd, FALSE, neighbor_index)]
                                    ELSE c2],
                             !.ret = s.root]
                 ELSE [Note(s, "redistribute_nodes") EXCEPT
                         !.node[n].keys = [keysS EXCEPT ![0] = bd.keys[bk - 1]],
                         !.node[n].pointers = [ptrsS EXCEPT ![0] = bd.pointers[bk - 1]],
                         !.node[n].num_keys = nk + 1,
                         !.node[neighbor].pointers[bk - 1] = NULL,
                         !.node[neighbor].num_keys = bk - 1,
                         !.node[p].keys[k_prime_index] = new_separator(bd, TRUE, neighbor_index),
                         !.ret = s.root]
        ELSE \* n is the leftmost child: the neighbor's first pair moves to the end of n
             LET bkeys == [i \in DOMAIN bd.keys |->
                             IF i < bk - 1 THEN bd.keys[i + 1] ELSE bd.keys[i]]
                 last == IF bk - 1 > 0 THEN bk - 1 ELSE 0
                 bptrs == [i \in DOMAIN bd.pointers |->
                             IF i < bk - 1 THEN bd.pointers[i + 1]
                             ELSE IF i = last /\ ~nd.is_leaf THEN bd.pointers[i + 1]
                             ELSE bd.pointers[i]]
             IN  IF nd.is_leaf
                 THEN [Note(s, "redistribute_nodes") EXCEPT
                         !.node[n].keys[nk] = bd.keys[0],
                         !.node[n].pointers[nk] = bd.pointers[0],
                         !.node[n].num_keys = nk + 1,
                         !.node[p].keys[k_prime_index] = new_separator(bd, TRUE, neighbor_index),
                         !.node[neighbor].keys = bkeys,
                         !.node[neighbor].pointers = bptrs,
                         !.node[neighbor].num_keys = bk - 1,
                         !.ret = s.root]
                 ELSE LET moved == bd.pointers[0]
                      IN  [Note(s, "redistribute_nodes") EXCEPT
                             !.node = [m \in NodeIds |->
                                LET c0 == IF m = moved
                                          THEN [s.node[m] EXCEPT !.parent = n]
                                          ELSE s.node[m]
                                    c1 == IF m = n
                                          THEN [c0 EXCEPT
                                                  !.keys[nk] = k_prime,
                                                  !.pointers[nk + 1] = moved,
                                                  !.num_keys = nk + 1]
                                          ELSE c0
                                    c2 == IF m = neighbor
                                          THEN [c1 EXCEPT
                                                  !.keys = bkeys,
                                                  !.pointers = bptrs,
                                                  !.num_keys = bk - 1]
                                          ELSE c1
                                IN  IF m = p
                                    THEN [c2 EXCEPT !.keys[k_prime_index] =
                                            new_separator(bd, FALSE, neighbor_index)]
                                    ELSE c2],
                             !.ret = s.root]

RECURSIVE delete_entry(_, _, _, _)

\* Faulty variant of swap_if_leftmost: n and neighbor are never swapped.
swap_never(n, neighbor, neighbor_index) ==
    [n |-> n, neighbor |-> neighbor]

\* The head of coalesce_nodes: n and neighbor change places when n is the
\* leftmost child, so that the right node is merged into the left one.
swap_if_leftmost(n, neighbor, neighbor_index) ==
    IF neighbor_index = -1
    THEN [n |-> neighbor, neighbor |-> n]
    ELSE [n |-> n, neighbor |-> neighbor]

coalesce_nodes(s, n0, neighbor0, neighbor_index, k_prime) ==
    LET n == swap_if_leftmost(n0, neighbor0, neighbor_index).n
        neighbor == swap_if_leftmost(n0, neighbor0, neighbor_index).neighbor
        nd == s.node[n]
        bd == s.node[neighbor]
        neighbor_insertion_index == bd.num_keys
        n_end == nd.num_keys
        \* internal node: k_prime, then the keys and pointers of n
        ikeys == [i \in DOMAIN bd.keys |->
                    IF i = neighbor_insertion_index THEN k_prime
                    ELSE IF i > neighbor_insertion_index
                            /\ i - neighbor_insertion_index - 1 < n_end
                         THEN nd.keys[i - neighbor_insertion_index - 1]
                         ELSE bd.keys[i]]
        iptrs == [i \in DOMAIN bd.pointers |->
                    IF i > neighbor_insertion_index
                       /\ i - neighbor_insertion_index - 1 <= n_end
                    THEN nd.pointers[i - neighbor_insertion_index - 1]
                    ELSE bd.pointers[i]]
        inum == neighbor_insertion_index + 1 + n_end
        children == {iptrs[i] : i \in 0 .. inum} \cap NodeIds
        \* leaf: the keys and pointers of n, and n's next-leaf slot
        lkeys == [i \in DOMAIN bd.keys |->
                    IF i >= neighbor_insertion_index
                       /\ i - neighbor_insertion_index < n_end
                    THEN nd.keys[i - neighbor_insertion_index]
                    ELSE bd.keys[i]]
        lptrs == [i \in DOMAIN bd.pointers |->
                    IF i = s.order - 1 THEN nd.pointers[s.order - 1]
                    ELSE IF i >= neighbor_insertion_index
                            /\ i - neighbor_insertion_index < n_end
                         THEN nd.pointers[i - neighbor_insertion_index]
                         ELSE bd.pointers[i]]
        s1 == IF ~nd.is_leaf
              THEN [Note(s, "coalesce_nodes") EXCEPT
                      !.node = [m \in NodeIds |->
                         IF m = neighbor
                         THEN [bd EXCEPT !.keys = ikeys, !.pointers = iptrs,
                                         !.num_keys = inum]
                         ELSE IF m = n
                         THEN [nd EXCEPT !.num_keys = 0,
                                         !.parent = IF n \in children
                                                    THEN neighbor ELSE @]
                         ELSE IF m \in children
                         THEN [s.node[m] EXCEPT !.parent = neighbor]
                         ELSE s.node[m]]]
              ELSE [Note(s, "coalesce_nodes") EXCEPT
                      !.node[neighbor].keys = lkeys,
                      !.node[neighbor].pointers = lptrs,
                      !.node[neighbor].num_keys = neighbor_insertion_index + n_end]
        s2 == set_root(delete_entry(s1, s1.node[n].parent, k_prime, n))
        s3 == free_node(Trace(s2, "free", "call", [n |-> n]), n)
    IN  IF inum > s.order - 1 /\ ~nd.is_leaf
        THEN Fail(s, "write past the keys array")
        ELSE IF neighbor_insertion_index + n_end > s.order - 1 /\ nd.is_leaf
        THEN Fail(s, "write past the keys array")
        ELSE IF s2.err # "ok"
        THEN s2
        ELSE [s3 EXCEPT !.ret = s3.root]

\* Faulty variant of min_keys: a leaf is given the minimum of an internal node.
min_keys_of_internal(ord, is_leaf) == cut(ord) - 1

\* Faulty variant of min_keys: one key more is asked of every node.
min_keys_one_more(ord, is_leaf) ==
    IF is_leaf THEN cut(ord - 1) + 1 ELSE cut(ord)

\* The fewest keys a node below the root may keep.
min_keys(ord, is_leaf) == IF is_leaf THEN cut(ord - 1) ELSE cut(ord) - 1

\* Faulty variant of capacity: a leaf is given the bound of an internal node.
capacity_of_internal(ord, is_leaf) == ord - 1

\* Two siblings are merged when their keys together stay below this.
capacity(ord, is_leaf) == IF is_leaf THEN ord ELSE ord - 1

delete_entry(s, n, key, pointer) ==
    LET s1 == Trace(remove_entry_from_node(s, n, key, pointer),
                    "remove_entry_from_node", "return",
                    [n |-> n, key |-> key, pointer |-> pointer])
        nd == s1.node[n]
        neighbor_index == get_neighbor_index(s1, n)
        k_prime_index == IF neighbor_index = -1 THEN 0 ELSE neighbor_index
        k_prime == s1.node[nd.parent].keys[k_prime_index]
        neighbor == IF neighbor_index = -1
                    THEN s1.node[nd.parent].pointers[1]
                    ELSE s1.node[nd.parent].pointers[neighbor_index]
        args == [n |-> n, neighbor |-> neighbor, neighbor_index |-> neighbor_index,
                 k_prime_index |-> k_prime_index, k_prime |-> k_prime]
    IN  IF s1.err # "ok"
        THEN s1
        ELSE IF n = s1.root
        THEN adjust_root(s1)
        ELSE IF nd.num_keys >= min_keys(s.order, nd.is_leaf)
        THEN [s1 EXCEPT !.ret = s1.root]
        ELSE IF neighbor_index = -2
        THEN Fail(s1, "search for nonexistent pointer to node in parent")
        ELSE IF s1.node[neighbor].num_keys + nd.num_keys < capacity(s.order, nd.is_leaf)
        THEN coalesce_nodes(Trace(s1, "coalesce_nodes", "call", args),
                            n, neighbor, neighbor_index, k_prime)
        ELSE Trace(redistribute_nodes(Trace(s1, "redistribute_nodes", "call", args),
                                      n, neighbor, neighbor_index, k_prime_index, k_prime),
                   "redistribute_nodes", "return", args)

\* Faulty variant of ytree_delete: the root delete_entry returns is not stored.
ytree_delete_keeping_root(s, key) ==
    LET key_record == ytree_find(s, key)
        key_leaf == find_leaf(s, key)
        s1 == delete_entry(s, key_leaf, key, key_record)
    IN  IF key_record # NULL /\ key_leaf # NULL
        THEN IF s1.err # "ok" THEN s1 ELSE free_record(s1, key_record)
        ELSE Note(s, "ytree_delete found nothing")

\* Faulty variant of ytree_delete: the record found is not tested, only the leaf.
ytree_delete_unchecked(s, key) ==
    LET key_record == ytree_find(s, key)
        key_leaf == find_leaf(s, key)
        s1 == set_root(delete_entry(s, key_leaf, key, key_record))
    IN  IF key_leaf # NULL
        THEN IF s1.err # "ok" THEN s1 ELSE free_record(s1, key_record)
        ELSE Note(s, "ytree_delete found nothing")

\* The release hook is called with the payload of record r.
call_release(s, r) ==
    [Trace(s, "release_callback", "call", [pointer |-> r])
        EXCEPT !.released = Append(@, r)]

\* Faulty variant of ytree_delete: the hook is called before the entry is
\* taken out of the tree.
ytree_delete_hook_first(s, key) ==
    LET key_record == ytree_find(s, key)
        key_leaf == find_leaf(s, key)
        s0 == IF is_data(key_record) /\ s.release_callback # NULL
              THEN call_release(s, key_record)
              ELSE s
        s1 == set_root(delete_entry(s0, key_leaf, key, key_record))
    IN  IF key_record # NULL /\ key_leaf # NULL
        THEN IF s1.err # "ok" THEN s1 ELSE free_record(s1, key_record)
        ELSE Note(s, "ytree_delete found nothing")

ytree_delete(s, key) ==
    LET key_record == ytree_find(s, key)
        key_leaf == find_leaf(s, key)
        s1 == set_root(delete_entry(s, key_leaf, key, key_record))
        s2 == IF is_data(key_record) /\ s1.release_callback # NULL
              THEN call_release(s1, key_record)
              ELSE s1
    IN  IF key_record # NULL /\ key_leaf # NULL
        THEN IF s1.err # "ok" THEN s1 ELSE free_record(s2, key_record)
        ELSE Note(s, "ytree_delete found nothing")

(* ------------------------------- purge -------------------------------- *)

RECURSIVE destroy_tree_nodes(_, _)

\* Faulty variant of destroy_slots: the loop over an internal node stops at
\* num_keys, one child short.
RECURSIVE destroy_slots_one_short(_, _, _)
destroy_slots_one_short(s, r, i) ==
    LET rd == s.node[r]
        last == rd.num_keys - 1
    IN  IF i > last \/ s.err # "ok"
        THEN s
        ELSE IF rd.is_leaf
        THEN destroy_slots_one_short(free_record(s, rd.pointers[i]), r, i + 1)
        ELSE destroy_slots_one_short(destroy_tree_nodes(s, rd.pointers[i]), r, i + 1)

RECURSIVE destroy_slots(_, _, _)
\* The loop of destroy_tree_nodes over the slots i .. of node r.
destroy_slots(s, r, i) ==
    LET rd == s.node[r]
        last == IF rd.is_leaf THEN rd.num_keys - 1 ELSE rd.num_keys
    IN  IF i > last \/ s.err # "ok"
        THEN s
        ELSE IF rd.is_leaf
        THEN destroy_slots(free_record(s, rd.pointers[i]), r, i + 1)
        ELSE destroy_slots(destroy_tree_nodes(s, rd.pointers[i]), r, i + 1)

destroy_tree_nodes(s, r) ==
    LET s1 == destroy_slots(s, r, 0)
    IN  IF s1.err # "ok" THEN s1 ELSE free_node(s1, r)

ytree_purge(s) ==
    IF s.root = NULL
    THEN s
    ELSE LET s1 == destroy_tree_nodes(Note(s, "ytree_purge"), s.root)
         IN  IF s1.err # "ok" THEN s1 ELSE [s1 EXCEPT !.root = NULL]

\* Faulty variant of ytree_order: the order is set whatever the tree holds.
ytree_order_unconditional(s, n) == [s EXCEPT !.order = n]

ytree_order(s, n) ==
    IF s.root = NULL THEN [s EXCEPT !.order = n] ELSE s

\* Faulty variant of ytree_db_init: the handle starts at the smallest order.
ytree_db_init_min_order ==
    [order |-> MIN_ORDER, root |-> NULL]

ytree_db_init ==
    [order |-> DEFAULT_ORDER, root |-> NULL]

\* ytree_db_close: free(*db), nothing else.
ytree_db_close(s) == [s EXCEPT !.db_freed = TRUE]

(* --------------------------- the state machine ------------------------ *)

Init ==
    /\ order = ytree_db_init.order
    /\ root = ytree_db_init.root
    /\ node = [n \in NodeIds |-> FreeNode]
    /\ recs = {}
    /\ err = "ok"
    /\ ev = {}
    /\ live = [k \in Keys |-> NULL]
    /\ release_callback = NULL
    /\ released = <<>>
    /\ db_freed = FALSE
    /\ script = <<>>

\* Install the machine state a public call leaves behind.
Commit(s) ==
    /\ order' = s.order
    /\ root' = s.root
    /\ node' = s.node
    /\ recs' = s.recs
    /\ err' = s.err
    /\ ev' = s.ev
    /\ release_callback' = s.release_callback
    /\ released' = s.released
    /\ db_freed' = s.db_freed

\* make_record: calloc returns some unused record address; as for nodes, one
\* representative stands for any of them (the key's own record address if it
\* is unused, else the spare one), NULL when none is left.
make_record(s, key) ==
    IF RecOf(key) \notin s.recs THEN RecOf(key)
    ELSE IF SpareRec \notin s.recs THEN SpareRec
    ELSE NULL

\* The caller creates a record (make_record) and hands it to ytree_insert.
InsertCall(key) ==
    LET pointer == make_record(Machine, key)
    IN  /\ err = "ok" /\ ~db_freed
        /\ pointer # NULL
        /\ Commit(ytree_insert([Machine EXCEPT !.recs = @ \cup {pointer}], key, pointer))
        /\ live' = IF live[key] = NULL THEN [live EXCEPT ![key] = pointer] ELSE live

Insert(key) == InsertCall(key) /\ UNCHANGED script

DeleteCall(key) ==
    /\ err = "ok" /\ ~db_freed
    /\ Commit(ytree_delete(Machine, key))
    /\ live' = [live EXCEPT ![key] = NULL]

Delete(key) == DeleteCall(key) /\ UNCHANGED script

Purge ==
    /\ err = "ok" /\ ~db_freed
    /\ Commit(ytree_purge(Machine))
    /\ live' = [k \in Keys |-> NULL]
    /\ UNCHANGED script

SetOrderCall(n) ==
    /\ err = "ok" /\ ~db_freed
    /\ Commit(ytree_order(Machine, n))
    /\ UNCHANGED live

SetOrder(n) == SetOrderCall(n) /\ UNCHANGED script

\* The caller closes the handle; live keeps the records the tree held then.
Close ==
    /\ err = "ok" /\ ~db_freed
    /\ Commit(ytree_db_close(Machine))
    /\ UNCHANGED <<live, script>>

Next ==
    \/ \E key \in Keys : Insert(key)
    \/ \E key \in Keys : Delete(key)
    \/ Purge
    \/ \E n \in Orders : SetOrder(n)

Spec == Init /\ [][Next]_vars

\* The lifetime of a handle in a program that installs the release hook, as
\* main does, and closes the handle at the end.
InitLife ==
    /\ order = ytree_db_init.order
    /\ root = ytree_db_init.root
    /\ node = [n \in NodeIds |-> FreeNode]
    /\ recs = {}
    /\ err = "ok"
    /\ ev = {}
    /\ live = [k \in Keys |-> NULL]
    /\ release_callback = release_pointer
    /\ released = <<>>
    /\ db_freed = FALSE
    /\ script = <<>>

NextLife ==
    \/ \E key \in Keys : Insert(key)
    \/ \E key \in Keys : Delete(key)
    \/ Purge
    \/ \E n \in Orders : SetOrder(n)
    \/ Close

SpecLife == InitLife /\ [][NextLife]_vars

\* The orders a caller may ask ytree_order for: any number, inside the range
\* MIN_ORDER .. MAX_ORDER or next to it.
OrderRequests == 0 .. (MAX_ORDER + 1)

\* The configuration of a handle before its first insert: the caller asks
\* for an order; delete and purge may be called but find nothing to do.
NextConfig ==
    \/ \E n \in OrderRequests : SetOrder(n)
    \/ \E key \in Keys : Delete(key)
    \/ Purge

SpecConfig == Init /\ [][NextConfig]_vars

\* A run of the program as main drives it: the order given on the command
\* line, the keys of the input file inserted in turn, then deletes typed at
\* the prompt.  The first two input files grow a second level by ascending
\* inserts; the third and the fourth one go on until the right node of that
\* level is full; the next two fill the left node of that level by inserts
\* of smaller keys; the last one stops after the first split.
Scenarios ==
    { [order |-> 3, keys |-> <<10, 20, 30>>],
      [order |-> 4, keys |-> <<1, 2, 3, 4, 5, 6, 7, 8, 9, 10>>],
      [order |-> 3, keys |-> <<10, 20, 30, 40, 50>>],
      [order |-> 4, keys |-> <<1, 2, 3, 4, 5, 6, 7, 8, 9, 10, 11, 12>>],
      [order |-> 3, keys |-> <<10, 20, 30, 40, 50, 60>>],
      [order |-> 3, keys |-> <<10, 20, 30, 40, 50, 5, 7>>],
      [order |-> 4, keys |-> <<10, 20, 30, 40, 50, 60, 70, 80, 15, 17, 11, 12, 18, 19>>] }

\* The deletes followed after the input file has been read.
MaxScriptDeletes == 3

Range(seq) == {seq[i] : i \in DOMAIN seq}

ScriptKeys == UNION {Range(sc.keys) : sc \in Scenarios}

\* main installs release_pointer as the hook, but every record it stores is
\* made by ytree_new_int, so is_data never holds for one of them and the hook
\* is never called: that is the behaviour of a handle without a hook.
InitScript ==
    /\ order = ytree_db_init.order
    /\ root = ytree_db_init.root
    /\ node = [n \in NodeIds |-> FreeNode]
    /\ recs = {}
    /\ err = "ok"
    /\ ev = {}
    /\ release_callback = NULL
    /\ released = <<>>
    /\ db_freed = FALSE
    /\ \E sc \in Scenarios :
          /\ script = [order |-> sc.order, keys |-> sc.keys, todo |-> sc.keys,
                       ordered |-> FALSE, deleted |-> <<>>]
          /\ live = [k \in Range(sc.keys) |-> NULL]

\* main calls ytree_order with the order of the command line.
ScriptOrder ==
    /\ ~script.ordered
    /\ SetOrderCall(script.order)
    /\ script' = [script EXCEPT !.ordered = TRUE]

\* main inserts the next key of the input file.
ScriptInsert ==
    /\ script.ordered
    /\ script.todo # <<>>
    /\ InsertCall(Head(script.todo))
    /\ script' = [script EXCEPT !.todo = Tail(@)]

\* main deletes a key typed at the prompt.
ScriptDelete(key) ==
    /\ script.ordered
    /\ script.todo = <<>>
    /\ Len(script.deleted) < MaxScriptDeletes
    /\ key \in Range(script.keys)
    /\ DeleteCall(key)
    /\ script' = [script EXCEPT !.deleted = Append(@, key)]

NextScript ==
    \/ ScriptOrder
    \/ ScriptInsert
    \/ \E key \in ScriptKeys : ScriptDelete(key)

SpecScript == InitScript /\ [][NextScript]_vars

\* Every run above: the callers that insert and delete a few keys in any
\* order, and the program reading an input file.
NextAll ==
    \/ \E key \in Keys : script = <<>> /\ Insert(key)
    \/ \E key \in Keys : script = <<>> /\ Delete(key)
    \/ script = <<>> /\ Purge
    \/ \E n \in Orders : script = <<>> /\ SetOrder(n)
    \/ script # <<>> /\ ScriptOrder
    \/ script # <<>> /\ ScriptInsert
    \/ \E key \in ScriptKeys : script # <<>> /\ ScriptDelete(key)

SpecAll == (Init \/ InitScript) /\ [][NextAll]_vars


(* ----------------------- reading the reached state -------------------- *)

LiveKeys == {k \in Keys : live[k] # NULL}

IsNode(n) == n \in NodeIds /\ node[n].used

\* The child slots of an internal node that num_keys declares valid.
Children(n) ==
    IF IsNode(n) /\ ~node[n].is_leaf
    THEN {node[n].pointers[i] : i \in 0 .. node[n].num_keys}
    ELSE {}

RECURSIVE Closure(_)
Closure(S) ==
    LET T == S \cup UNION {Children(n) : n \in S}
    IN  IF T = S THEN S ELSE Closure(T)

\* Everything reachable from n through valid child slots (addresses, maybe bad).
Under(n) == Closure({n})

Reachable == IF root = NULL THEN {} ELSE Under(root)

Internals == {n \in Reachable : IsNode(n) /\ ~node[n].is_leaf}

Leaves == {n \in Reachable : IsNode(n) /\ node[n].is_leaf}

NodeKeys(n) == {node[n].keys[i] : i \in 0 .. (node[n].num_keys - 1)}

\* The keys stored in the leaves below (or at) n.
SubKeys(n) == UNION {NodeKeys(m) : m \in {x \in Under(n) : IsNode(x) /\ node[x].is_leaf}}

\* The nodes met by following the next-leaf slot from c, at most fuel of them.
RECURSIVE Chain(_, _)
Chain(c, fuel) ==
    IF c = NULL \/ fuel = 0 THEN <<>>
    ELSE IF ~IsNode(c) THEN <<c>>
    ELSE <<c>> \o Chain(node[c].pointers[order - 1], fuel - 1)

\* The leftmost leaf, found as ytree_count finds it (bounded descent).
RECURSIVE LeftmostFrom(_, _)
LeftmostFrom(c, fuel) ==
    IF fuel = 0 \/ ~IsNode(c) \/ node[c].is_leaf THEN c
    ELSE LeftmostFrom(node[c].pointers[0], fuel - 1)

LeafChain == IF root = NULL THEN <<>> ELSE Chain(LeftmostFrom(root, NumNodes), NumNodes + 1)

\* The leaves in left-to-right tree order (depth-first through the child slots).
RECURSIVE Fringe(_, _)
RECURSIVE FringeFrom(_, _, _)
FringeFrom(n, i, fuel) ==
    IF i > node[n].num_keys THEN <<>>
    ELSE Fringe(node[n].pointers[i], fuel) \o FringeFrom(n, i + 1, fuel)

Fringe(n, fuel) ==
    IF fuel = 0 \/ ~IsNode(n) THEN <<n>>
    ELSE IF node[n].is_leaf THEN <<n>>
    ELSE FringeFrom(n, 0, fuel - 1)

TreeFringe == IF root = NULL THEN <<>> ELSE Fringe(root, NumNodes)

\* The keys of a sequence of leaves, in the order the leaves are visited.
RECURSIVE KeysAlong(_)
KeysAlong(seq) ==
    IF seq = <<>> THEN <<>>
    ELSE LET n == Head(seq)
         IN  (IF IsNode(n)
              THEN [i \in 1 .. node[n].num_keys |-> node[n].keys[i - 1]]
              ELSE <<>>) \o KeysAlong(Tail(seq))

StrictlyAscending(seq) == \A i \in 1 .. (Len(seq) - 1) : seq[i] < seq[i + 1]

\* The depths (in edges below n, starting at d) of the leaves under n; -1
\* stands for a path that does not end in a leaf.
RECURSIVE LeafDepths(_, _, _)
LeafDepths(n, d, fuel) ==
    IF fuel = 0 \/ ~IsNode(n) THEN {-1}
    ELSE IF node[n].is_leaf THEN {d}
    ELSE UNION {LeafDepths(c, d + 1, fuel - 1) : c \in Children(n)}

(* ------------------------------- claims ------------------------------- *)

\* C1: every key inserted and not deleted since is found, and find returns the
\* very record handed to the insert that stored it, which is still allocated.
C1_FindReturnsRecord ==
    \A k \in Keys :
        live[k] # NULL => ytree_find(Machine, k) = live[k] /\ live[k] \in recs

\* A record survives a delete of another key that merged two nodes.
C1_Witness ==
    /\ "coalesce_nodes" \in ev
    /\ root # NULL /\ ~node[root].is_leaf
    /\ \E k \in Keys : live[k] # NULL /\ ytree_find(Machine, k) = live[k]

\* C2: find returns NULL for every key never inserted or deleted last.
C2_FindAbsent ==
    \A k \in Keys : live[k] = NULL => ytree_find(Machine, k) = NULL

\* After a delete that rebalanced a non-empty tree, an absent key is not found.
C2_Witness ==
    /\ "redistribute_nodes" \in ev
    /\ root # NULL
    /\ \E k \in Keys : live[k] = NULL /\ ytree_find(Machine, k) = NULL

\* C3: count (the sum of num_keys along the leaf chain) is the number of live
\* keys, and the tree is empty (root = NULL) exactly when count is 0.
C3_CountIsLiveKeys ==
    /\ ytree_count(Machine) = Cardinality(LiveKeys)
    /\ ytree_db_empty(Machine) <=> ytree_count(Machine) = 0

\* A delete merged two nodes and the count is that of the keys left.
C3_Witness ==
    /\ "coalesce_nodes" \in ev
    /\ Cardinality(LiveKeys) >= 3
    /\ ytree_count(Machine) = Cardinality(LiveKeys)

\* C4: the next-leaf chain from the leftmost leaf visits every leaf once, left
\* to right, reaches no freed node, and yields the live keys strictly ascending.
C4_LeafChain ==
    /\ LeafChain = TreeFringe
    /\ \A i \in DOMAIN LeafChain : IsNode(LeafChain[i]) /\ node[LeafChain[i]].is_leaf
    /\ Cardinality({LeafChain[i] : i \in DOMAIN LeafChain}) = Len(LeafChain)
    /\ {LeafChain[i] : i \in DOMAIN LeafChain} = Leaves
    /\ StrictlyAscending(KeysAlong(LeafChain))
    /\ {KeysAlong(LeafChain)[i] : i \in DOMAIN KeysAlong(LeafChain)} = LiveKeys

\* A chain of at least three leaves after a merge of two leaves.
C4_Witness ==
    /\ "coalesce_nodes" \in ev
    /\ Len(LeafChain) >= 3
    /\ LeafChain = TreeFringe

\* C5 as stated: every separator keys[i] equals the smallest key below child
\* i+1, and every key below child i is smaller than keys[i].
C5_SeparatorIsSubtreeMin ==
    \A p \in Internals : \A i \in 0 .. (node[p].num_keys - 1) :
        /\ SubKeys(node[p].pointers[i + 1]) # {}
        /\ node[p].keys[i] = Min(SubKeys(node[p].pointers[i + 1]))
        /\ \A x \in SubKeys(node[p].pointers[i]) : x < node[p].keys[i]

\* C5 as amended: every separator keys[i] is at most the smallest key below
\* child i+1, equals it whenever keys[i] is itself still a key of the tree, and
\* every key below child i is smaller than keys[i].
C5_SeparatorBoundsSubtree ==
    \A p \in Internals : \A i \in 0 .. (node[p].num_keys - 1) :
        /\ \A x \in SubKeys(node[p].pointers[i + 1]) : node[p].keys[i] <= x
        /\ node[p].keys[i] \in LiveKeys =>
              /\ SubKeys(node[p].pointers[i + 1]) # {}
              /\ node[p].keys[i] = Min(SubKeys(node[p].pointers[i + 1]))
        /\ \A x \in SubKeys(node[p].pointers[i]) : x < node[p].keys[i]

\* A separator whose key was deleted: it lies below the smallest key to its
\* right; another separator of the same tree is still a key and is that minimum.
C5_Witness ==
    /\ \E p \in Internals : \E i \in 0 .. (node[p].num_keys - 1) :
          /\ node[p].keys[i] \notin LiveKeys
          /\ SubKeys(node[p].pointers[i + 1]) # {}
          /\ node[p].keys[i] < Min(SubKeys(node[p].pointers[i + 1]))
    /\ \E p \in Internals : \E i \in 0 .. (node[p].num_keys - 1) :
          /\ node[p].keys[i] \in LiveKeys
          /\ node[p].keys[i] = Min(SubKeys(node[p].pointers[i + 1]))

\* C6: at every internal node the keys below child i are smaller than keys[i]
\* and the keys below child i+1 are at least keys[i].
C6_Partition ==
    \A p \in Internals : \A i \in 0 .. (node[p].num_keys - 1) :
        /\ \A x \in SubKeys(node[p].pointers[i]) : x < node[p].keys[i]
        /\ \A x \in SubKeys(node[p].pointers[i + 1]) : x >= node[p].keys[i]

\* A redistribute between two internal nodes rewrote a separator of the root.
C6_Witness ==
    /\ "redistribute_nodes" \in ev
    /\ ytree_height(Machine) >= 2

\* C7: every leaf is as many edges below the root as ytree_height reports.
C7_LeavesAtHeight ==
    root # NULL => LeafDepths(root, 0, NumNodes) = {ytree_height(Machine)}

\* The root was replaced by its only child and the tree still has two levels.
C7_Witness ==
    /\ "adjust_root" \in ev
    /\ root # NULL
    /\ ytree_height(Machine) >= 1
    /\ Cardinality(Leaves) >= 2

\* C8: no node holds more than order-1 keys; below the root an internal node
\* holds at least cut(order)-1 keys and a leaf at least cut(order-1) keys.
C8_Occupancy ==
    \A n \in Reachable :
        /\ IsNode(n)
        /\ node[n].num_keys <= order - 1
        /\ n # root =>
              node[n].num_keys >=
                  (IF node[n].is_leaf THEN cut(order - 1) ELSE cut(order) - 1)

\* After a redistribute at order 4 a leaf below the root sits exactly at its
\* minimum of two keys while another leaf is full.
C8_Witness ==
    /\ "redistribute_nodes" \in ev
    /\ order = 4
    /\ \E n \in Leaves : n # root /\ node[n].num_keys = cut(order - 1)

\* C9: the keys of every node are strictly ascending and no key is stored in
\* two leaves.
C9_KeysAscending ==
    /\ \A n \in Reachable :
          IsNode(n) =>
             \A i \in 0 .. (node[n].num_keys - 2) : node[n].keys[i] < node[n].keys[i + 1]
    /\ \A m, n \in Leaves : m # n => NodeKeys(m) \cap NodeKeys(n) = {}

\* An insert split an internal node, and some leaf and some internal node hold
\* two keys or more.
C9_Witness ==
    /\ "insert_into_node_after_splitting" \in ev
    /\ \E n \in Leaves : node[n].num_keys >= 2
    /\ \E n \in Internals : node[n].num_keys >= 1

\* C10: the root has no parent and every child referenced from a valid slot of
\* an internal node names that node as its parent.
C10_ParentPointers ==
    root # NULL =>
        /\ node[root].parent = NULL
        /\ \A p \in Internals : \A c \in Children(p) : IsNode(c) /\ node[c].parent = p

\* An internal merge moved children to the surviving node and the emptied
\* root was replaced by it.
C10_Witness ==
    /\ "coalesce_nodes" \in ev
    /\ "adjust_root" \in ev
    /\ root # NULL /\ ~node[root].is_leaf
    /\ node[root].parent = NULL

\* C11: every internal node has num_keys+1 children in its slots 0..num_keys,
\* all non-null, distinct and allocated nodes; every leaf has num_keys records
\* in its slots 0..num_keys-1, all non-null, distinct and allocated records.
C11_LiveChildren ==
    \A n \in Reachable :
        /\ IsNode(n)
        /\ ~node[n].is_leaf =>
              /\ \A i \in 0 .. node[n].num_keys :
                    node[n].pointers[i] # NULL /\ IsNode(node[n].pointers[i])
              /\ Cardinality(Children(n)) = node[n].num_keys + 1
        /\ node[n].is_leaf =>
              /\ \A i \in 0 .. (node[n].num_keys - 1) :
                    node[n].pointers[i] # NULL /\ node[n].pointers[i] \in recs
              /\ Cardinality({node[n].pointers[i] : i \in 0 .. (node[n].num_keys - 1)})
                    = node[n].num_keys

\* A merge freed a node, and an internal node still carries, beyond its valid
\* slots, a stale pointer left behind by an earlier split.
C11_Witness ==
    /\ "coalesce_nodes" \in ev
    /\ \E n \in Internals : \E i \in (node[n].num_keys + 1) .. (order - 1) :
          node[n].pointers[i] # NULL
    /\ \E n \in Leaves : node[n].num_keys >= 1

\* C12: an insert of a key that is present changes nothing of the tree (order,
\* root, nodes, key set and count stay as they are) and find still returns
\* the record of the first insert, not the new one; a delete of a present key
\* makes find return NULL for it.
C12_DuplicateIgnored ==
    [][\A key \in Keys :
          /\ (live[key] # NULL /\ recs' # recs /\ Insert(key)) =>
                /\ order' = order /\ root' = root /\ node' = node
                /\ live' = live
                /\ ytree_count(Machine') = ytree_count(Machine)
                /\ ytree_find(Machine', key) = live[key]
                /\ ytree_find(Machine', key) # make_record(Machine, key)
          /\ (live[key] # NULL /\ live'[key] = NULL /\ Delete(key)) =>
                ytree_find(Machine', key) = NULL]_vars

\* The record of a rejected insert is allocated beside the records of the
\* tree, and the keys of a tree of two levels are still found as stored.
C12_Witness ==
    /\ SpareRec \in recs
    /\ root # NULL /\ ~node[root].is_leaf
    /\ \A k \in Keys :
          live[k] # NULL => ytree_find(Machine, k) = live[k] /\ live[k] # SpareRec
    /\ \E k \in Keys : live[k] = NULL

\* C13: a delete of a key that is not present changes nothing of the state
\* (order, root, nodes, records) and raises no error; after any delete of a
\* key, a second delete of the same key changes nothing either.
C13_DeleteAbsent ==
    [][\A key \in Keys :
          /\ (live[key] = NULL /\ Delete(key)) =>
                UNCHANGED <<order, root, node, recs, err>>
          /\ (live'[key] = NULL /\ Delete(key)) =>
                LET s2 == ytree_delete(Machine', key)
                IN  /\ s2.order = order' /\ s2.root = root' /\ s2.node = node'
                    /\ s2.recs = recs' /\ s2.err = err']_vars

\* A delete found nothing in a tree of two levels and left no error behind.
C13_Witness ==
    /\ "ytree_delete found nothing" \in ev
    /\ root # NULL /\ ~node[root].is_leaf
    /\ err = "ok"

\* C14: once every key that was inserted has been deleted again, in whatever
\* order, the root is NULL, the tree is empty and its count is 0; no insert or
\* delete on the way stops with an error.
C14_RoundTrip ==
    /\ err = "ok"
    /\ LiveKeys = {} =>
          /\ root = NULL
          /\ ytree_db_empty(Machine)
          /\ ytree_count(Machine) = 0

\* The delete of the last key released the root leaf.
C14_Witness ==
    /\ LiveKeys = {}
    /\ "adjust_root" \in ev
    /\ root = NULL
    /\ \A n \in NodeIds : ~node[n].used

\* The live keys from lo to hi with their records, in ascending order.
RECURSIVE RangeOf(_, _)
RangeOf(lo, hi) ==
    IF lo > hi THEN <<>>
    ELSE (IF live[lo] # NULL THEN << <<lo, live[lo]>> >> ELSE <<>>) \o RangeOf(lo + 1, hi)

\* C15: for all bounds lo and hi, find_range returns exactly the live keys k
\* with lo <= k <= hi, each once, ascending, with their records, whether or
\* not lo is present and whatever leaf the descent for lo ends in; nothing
\* when lo > hi.
C15_RangeExact ==
    \A lo, hi \in Keys : find_range(Machine, lo, hi) = RangeOf(lo, hi)

\* The records the leaves of the tree refer to from their valid slots.
StoredRecs ==
    UNION {{node[n].pointers[i] : i \in 0 .. (node[n].num_keys - 1)} : n \in Leaves}

\* C16: a purge frees every node and every record stored in the tree and sets
\* the root to NULL, so that count is 0 and the tree is empty; the order is
\* kept, no error is raised, and the handle is in the state of a fresh handle
\* of that order, so that later calls behave as on a fresh one.
C16_PurgeEmpties ==
    [][(live' = [k \in Keys |-> NULL] /\ Purge) =>
          /\ root' = NULL
          /\ node' = [n \in NodeIds |-> FreeNode]
          /\ recs' = recs \ StoredRecs
          /\ order' = order
          /\ err' = "ok"
          /\ ytree_count(Machine') = 0
          /\ ytree_db_empty(Machine')]_vars

\* A purge of a tree built at the order set before left nothing behind.
C16_Witness ==
    /\ "ytree_purge" \in ev
    /\ order # DEFAULT_ORDER
    /\ root = NULL
    /\ \A n \in NodeIds : ~node[n].used
    /\ recs \cap {RecOf(k) : k \in Keys} = {}

\* C20: a call of order(n) sets the order to n exactly when the root is NULL
\* and changes nothing otherwise; no step taken while the tree holds a node
\* changes the order.
C20_OrderOnlyWhenEmpty ==
    [][/\ \A n \in Orders :
             SetOrder(n) =>
                /\ order' = IF root = NULL THEN n ELSE order
                /\ UNCHANGED <<root, node, recs, err>>
       /\ root # NULL => order' = order]_vars

\* The order was set away from the default while the tree was empty, and the
\* tree of two levels built since then still has it.
C20_Witness ==
    /\ order # DEFAULT_ORDER
    /\ root # NULL /\ ~node[root].is_leaf
    /\ \A n \in Reachable : DOMAIN node[n].pointers = 0 .. (order - 1)

\* C17: once the handle is closed, every node is freed and every record the
\* tree held is freed.
C17_CloseFreesTree ==
    db_freed =>
        /\ \A n \in NodeIds : ~node[n].used
        /\ \A k \in Keys : live[k] \notin recs

\* The blob records among those the tree holds, in any order, each once.
HookedOnce(log, records) ==
    /\ {log[i] : i \in DOMAIN log} = {r \in records : is_data(r)}
    /\ Len(log) = Cardinality({r \in records : is_data(r)})

\* C18: with the release hook set, a delete of a present key invokes the
\* hook once for its record if that is a blob and not at all otherwise, and a
\* purge or a close invokes it once for every blob record the tree holds.
C18_HookOncePerBlob ==
    [][release_callback # NULL =>
          /\ \A key \in Keys :
                (live[key] # NULL /\ live'[key] = NULL /\ Delete(key)) =>
                    HookedOnce(released', {live[key]})
          /\ (live' = [k \in Keys |-> NULL] /\ Purge) => HookedOnce(released', StoredRecs)
          /\ Close => HookedOnce(released', StoredRecs)]_vars

\* C19: a purge leaves no record allocated that was ever handed to an insert,
\* and no record is freed twice on the way.
C19_RecordsFreedOnce ==
    [][(live' = [k \in Keys |-> NULL] /\ Purge) => recs' = {} /\ err' = "ok"]_vars

\* C21: the order of a handle is always within MIN_ORDER .. MAX_ORDER; a
\* request for an order outside never becomes the order of the handle.
C21_OrderInRange ==
    order \in MIN_ORDER .. MAX_ORDER

\* C22: the handle db_init returns is empty and has order 4; on an empty tree
\* find returns NULL, delete changes nothing and leaves the tree empty,
\* find_range returns no entry, and height and count are 0.
C22_EmptyTree ==
    /\ ytree_db_init.root = NULL /\ ytree_db_init.order = 4
    /\ root = NULL =>
          /\ ytree_db_empty(Machine)
          /\ ytree_height(Machine) = 0
          /\ ytree_count(Machine) = 0
          /\ \A k \in Keys :
                /\ ytree_find(Machine, k) = NULL
                /\ ytree_delete(Machine, k).root = NULL
                /\ ytree_delete(Machine, k).node = node
                /\ ytree_delete(Machine, k).recs = recs
                /\ ytree_delete(Machine, k).err = "ok"
          /\ \A lo, hi \in Keys : find_range(Machine, lo, hi) = <<>>

\* A delete was called on the empty tree of a handle that held keys before.
C22_Witness ==
    /\ root = NULL
    /\ "ytree_delete found nothing" \in ev
    /\ SpareRec \in recs


\* The program has read its whole input file and deleted nothing yet.
InputRead(ord, keys) ==
    /\ script # <<>>
    /\ script.order = ord /\ script.keys = keys
    /\ script.ordered /\ script.todo = <<>> /\ script.deleted = <<>>

\* The key sets of the leaves, along the next-leaf chain.
ChainKeySets == [i \in 1 .. Len(LeafChain) |-> NodeKeys(LeafChain[i])]

\* C23: with order 4, after 1, 2, ..., 10 were inserted in ascending order
\* into a fresh tree, count is 10, height is 2, the leaf chain is {1,2},
\* {3,4}, {5,6}, {7,8}, {9,10} under two levels of internal nodes, find(5)
\* returns the record inserted for 5 and find(11) returns nothing.
C23_AscendingTen ==
    InputRead(4, <<1, 2, 3, 4, 5, 6, 7, 8, 9, 10>>) =>
        /\ err = "ok"
        /\ ytree_count(Machine) = 10
        /\ ytree_height(Machine) = 2
        /\ ChainKeySets = <<{1, 2}, {3, 4}, {5, 6}, {7, 8}, {9, 10}>>
        /\ KeysAlong(LeafChain) = <<1, 2, 3, 4, 5, 6, 7, 8, 9, 10>>
        /\ TreeFringe = LeafChain
        /\ ~node[root].is_leaf
        /\ \A c \in Children(root) :
              /\ ~node[c].is_leaf
              /\ \A g \in Children(c) : node[g].is_leaf
        /\ live[5] = RecOf(5)
        /\ ytree_find(Machine, 5) = live[5]
        /\ ytree_find(Machine, 11) = NULL

C23_Witness ==
    /\ InputRead(4, <<1, 2, 3, 4, 5, 6, 7, 8, 9, 10>>)
    /\ root # NULL
    /\ "insert_into_leaf_after_splitting" \in ev

\* The program has read its whole input file and then deleted these keys.
Deleted(ord, keys, gone) ==
    /\ script # <<>>
    /\ script.order = ord /\ script.keys = keys
    /\ script.ordered /\ script.todo = <<>> /\ script.deleted = gone

\* C24 as stated: with order 4, after 1..10 were inserted and 1 deleted, the
\* first leaf was repaired by redistribute and not by coalesce, key 3 having
\* moved from the right sibling into the first leaf.
C24_RepairedByRedistribute ==
    Deleted(4, <<1, 2, 3, 4, 5, 6, 7, 8, 9, 10>>, <<1>>) =>
        /\ "redistribute_nodes" \in ev
        /\ "coalesce_nodes" \notin ev
        /\ 3 \in ChainKeySets[1]

\* C24, amended: with order 4, after 1..10 were inserted and 1 deleted, the
\* first leaf (left with the one key 2) and its right sibling {3,4} hold
\* 3 < 4 keys together, so the repair is a coalesce and not a
\* redistribute: the leaves are {2,3,4}, {5,6}, {7,8}, {9,10} and nine keys
\* are counted.  The parent of the merged leaves is left without a key and is
\* merged with its right sibling in turn, the old root is dropped and the
\* height falls to 1: the root holds the separators 5, 7, 9.
C24_RepairedByCoalesce ==
    Deleted(4, <<1, 2, 3, 4, 5, 6, 7, 8, 9, 10>>, <<1>>) =>
        /\ err = "ok"
        /\ "coalesce_nodes" \in ev
        /\ "redistribute_nodes" \notin ev
        /\ ChainKeySets = <<{2, 3, 4}, {5, 6}, {7, 8}, {9, 10}>>
        /\ TreeFringe = LeafChain
        /\ "adjust_root" \in ev
        /\ ytree_height(Machine) = 1
        /\ NodeKeys(root) = {5, 7, 9}
        /\ ytree_count(Machine) = 9
        /\ ytree_find(Machine, 1) = NULL

C24_Witness ==
    /\ Deleted(4, <<1, 2, 3, 4, 5, 6, 7, 8, 9, 10>>, <<1>>)
    /\ live[1] = NULL
    /\ 2 \in ChainKeySets[1]

\* The leaf key is deleted from, and the sibling delete_entry picks for it
\* when it is its parent's leftmost child.
LeafOf(key) == find_leaf(Machine, key)

RightSiblingOf(n) == node[node[n].parent].pointers[1]

\* The delete of 10 that follows the inserts of 10, 20, 30, 40, 50 at order 3.
DeleteTenOfFifty ==
    /\ InputRead(3, <<10, 20, 30, 40, 50>>)
    /\ ScriptDelete(10)

\* C25 as stated: with order 3, after 10, 20, 30, 40, 50 were inserted, the
\* delete of 10 takes the coalesce path with neighbor_index = -1, and the
\* node that survives is the right neighbor, the leftmost node being removed.
C25_RightNeighborSurvives ==
    [][DeleteTenOfFifty =>
          /\ get_neighbor_index(Machine, LeafOf(10)) = -1
          /\ "coalesce_nodes" \in ev'
          /\ node'[RightSiblingOf(LeafOf(10))].used
          /\ ~node'[LeafOf(10)].used]_vars

\* C25, amended: with order 3, after 10, 20, 30, 40, 50 were inserted, the
\* delete of 10 takes the coalesce path with neighbor_index = -1, and the
\* node that survives is the leftmost node the key was deleted from: it
\* takes over the key 20, the record and the next-leaf slot of its right
\* neighbor, and the right neighbor is the node removed and freed.
C25_LeftmostSurvives ==
    [][DeleteTenOfFifty =>
          LET n == LeafOf(10)
              neighbor == RightSiblingOf(n)
          IN  /\ get_neighbor_index(Machine, n) = -1
              /\ "coalesce_nodes" \in ev'
              /\ "redistribute_nodes" \notin ev'
              /\ err' = "ok"
              /\ node[neighbor].is_leaf /\ node[n].pointers[order - 1] = neighbor
              /\ ~node'[neighbor].used
              /\ node'[n].used /\ node'[n].is_leaf
              /\ node'[n].num_keys = 1
              /\ node'[n].keys[0] = 20
              /\ node'[n].pointers[0] = live[20]
              /\ node'[n].pointers[order - 1] = node[neighbor].pointers[order - 1]]_vars

C25_Witness ==
    /\ Deleted(3, <<10, 20, 30, 40, 50>>, <<10>>)
    /\ "coalesce_nodes" \in ev
    /\ live[10] = NULL /\ live[20] # NULL

(* ------------------- claims about the internal calls ------------------ *)

\* What an insert or a delete of key does when called in the current state.
InsertOf(key) ==
    LET pointer == make_record(Machine, key)
    IN  ytree_insert([Machine EXCEPT !.recs = @ \cup {pointer}], key, pointer)

DeleteOf(key) == ytree_delete(Machine, key)

\* The machine state as a history entry recorded it.
AsOf(c) == [Machine EXCEPT !.root = c.root, !.node = c.node]

\* The valid keys, leaf pairs and child slots of a node, in slot order.
KeySeq(nd) == [i \in 1 .. nd.num_keys |-> nd.keys[i - 1]]

PairSeq(nd) == [i \in 1 .. nd.num_keys |-> <<nd.keys[i - 1], nd.pointers[i - 1]>>]

ChildSeq(nd) == [i \in 1 .. (nd.num_keys + 1) |-> nd.pointers[i - 1]]

\* seq with x put in after its first at elements.
PutIn(seq, at, x) == SubSeq(seq, 1, at) \o <<x>> \o SubSeq(seq, at + 1, Len(seq))

\* seq without its element number at.
TakeOut(seq, at) == SubSeq(seq, 1, at - 1) \o SubSeq(seq, at + 1, Len(seq))

\* n / 2 rounded up, the value the specification gives for cut(n).
HalfUp(n) == (n + 1) \div 2

\* C26: when insert targets a full leaf (order-1 keys), the order sorted
\* entries (the old ones and the new pair) are divided: the first cut(order-1)
\* stay in the old leaf, the other order - cut(order-1) go to a fresh right
\* sibling; the new leaf's next-leaf slot takes the old leaf's former
\* successor and the old leaf's next-leaf slot points to the new leaf; the
\* key handed to insert_into_parent is the new leaf's first key, which stays
\* stored in that leaf and is a separator of the tree afterwards.
C26_LeafSplit ==
    \A key \in DOMAIN live :
        LET s == InsertOf(key)
        IN  \A i \in DOMAIN s.calls :
                s.calls[i].fn = "insert_into_leaf_after_splitting" =>
                    LET c == s.calls[i]
                        d == s.calls[i + 1]
                        leaf == c.args.leaf
                        new_leaf == d.args.right
                        below == Cardinality({k \in NodeKeys(leaf) : k < key})
                        all == PutIn(PairSeq(c.node[leaf]), below, <<key, c.args.pointer>>)
                        keep == HalfUp(order - 1)
                    IN  /\ s.err = "ok"
                        /\ c.node[leaf].is_leaf /\ c.node[leaf].num_keys = order - 1
                        /\ c.args.key = key /\ Len(all) = order
                        /\ i + 1 \in DOMAIN s.calls
                        /\ d.fn = "insert_into_parent" /\ d.args.left = leaf
                        /\ ~c.node[new_leaf].used
                        /\ d.node[new_leaf].used /\ d.node[new_leaf].is_leaf
                        /\ PairSeq(d.node[leaf]) = SubSeq(all, 1, keep)
                        /\ PairSeq(d.node[new_leaf]) = SubSeq(all, keep + 1, order)
                        /\ d.node[new_leaf].num_keys = order - keep
                        /\ d.node[new_leaf].pointers[order - 1] = c.node[leaf].pointers[order - 1]
                        /\ d.node[leaf].pointers[order - 1] = new_leaf
                        /\ d.args.key = d.node[new_leaf].keys[0]
                        /\ PairSeq(s.node[new_leaf]) = PairSeq(d.node[new_leaf])
                        /\ \E p \in NodeIds :
                              /\ s.node[p].used /\ ~s.node[p].is_leaf
                              /\ d.args.key \in Range(KeySeq(s.node[p]))

\* An insert is about to split a full leaf that has a successor in the chain.
C26_Witness ==
    \E key \in DOMAIN live :
        LET s == InsertOf(key)
        IN  /\ s.calls # <<>>
            /\ s.calls[1].fn = "insert_into_leaf_after_splitting"
            /\ node[s.calls[1].args.leaf].num_keys = order - 1
            /\ node[s.calls[1].args.leaf].pointers[order - 1] # NULL
            /\ "insert_into_leaf_after_splitting" \in ev

\* C27: when a (separator, right child) pair is inserted into a full internal
\* node, of the order sorted keys the first cut(order)-1 stay in the old node
\* with cut(order) children, the key at index cut(order)-1 is handed to
\* insert_into_parent and is in neither half, the other order - cut(order)
\* keys and their children go to a fresh right node, and every child moved
\* to the new node has the new node as parent.
C27_InternalSplit ==
    \A key \in DOMAIN live :
        LET s == InsertOf(key)
        IN  \A i \in DOMAIN s.calls :
                s.calls[i].fn = "insert_into_node_after_splitting" =>
                    LET c == s.calls[i]
                        d == s.calls[i + 1]
                        old_node == c.args.old_node
                        new_node == d.args.right
                        keys == PutIn(KeySeq(c.node[old_node]), c.args.left_index, c.args.key)
                        children == PutIn(ChildSeq(c.node[old_node]), c.args.left_index + 1,
                                          c.args.right)
                        split == HalfUp(order)
                    IN  /\ s.err = "ok"
                        /\ ~c.node[old_node].is_leaf /\ c.node[old_node].num_keys = order - 1
                        /\ Len(keys) = order /\ StrictlyAscending(keys)
                        /\ i + 1 \in DOMAIN s.calls
                        /\ d.fn = "insert_into_parent" /\ d.args.left = old_node
                        /\ ~c.node[new_node].used
                        /\ d.node[new_node].used /\ ~d.node[new_node].is_leaf
                        /\ KeySeq(d.node[old_node]) = SubSeq(keys, 1, split - 1)
                        /\ ChildSeq(d.node[old_node]) = SubSeq(children, 1, split)
                        /\ d.args.key = keys[split]
                        /\ d.args.key \notin Range(KeySeq(d.node[old_node]))
                        /\ d.args.key \notin Range(KeySeq(d.node[new_node]))
                        /\ d.node[new_node].num_keys = order - split
                        /\ KeySeq(d.node[new_node]) = SubSeq(keys, split + 1, order)
                        /\ ChildSeq(d.node[new_node]) = SubSeq(children, split + 1, order + 1)
                        /\ \A m \in Range(ChildSeq(d.node[new_node])) :
                              d.node[m].parent = new_node
                        /\ \A m \in Range(ChildSeq(d.node[old_node])) :
                              d.node[m].parent = old_node
                        /\ \E p \in NodeIds \ {old_node, new_node} :
                              /\ s.node[p].used /\ ~s.node[p].is_leaf
                              /\ d.args.key \in Range(KeySeq(s.node[p]))

\* The last insert split an internal node of order 4: the root is new and
\* has two internal children.
C27_Witness ==
    /\ order = 4
    /\ "insert_into_node_after_splitting" \in ev
    /\ "insert_into_new_root" \in ev
    /\ root # NULL /\ ~node[root].is_leaf
    /\ \A m \in Children(root) : ~node[m].is_leaf /\ node[m].parent = root

\* The fewest keys the specification lets a node below the root keep.
MinOccupancy(is_leaf) == IF is_leaf THEN HalfUp(order - 1) ELSE HalfUp(order) - 1

\* The slot (from 0) of child n in the node record pd.
SlotOf(pd, n) == Min({i \in 0 .. pd.num_keys : pd.pointers[i] = n})

\* Entry i of the history is delete_entry having removed its pair from a
\* node, other than the root, that is now below its minimum.
Underfull(calls, i) ==
    LET c == calls[i]
        n == c.args.n
    IN  /\ c.fn = "remove_entry_from_node"
        /\ n # c.root
        /\ c.node[n].num_keys < MinOccupancy(c.node[n].is_leaf)

\* C28: delete_entry on a node below the root that has fallen below its
\* minimum picks the left sibling as neighbor or, for the leftmost child, the
\* right sibling (parent child 1) with k_prime = parent key 0; it coalesces
\* exactly when neighbor.num_keys + n.num_keys < capacity (order for a leaf,
\* order-1 for an internal node), which is exactly when the merged contents
\* fit in one node of order-1 keys, and redistributes otherwise; a node at
\* or above its minimum is neither coalesced nor redistributed.
C28_NeighborAndRepair ==
    \A key \in DOMAIN live :
        LET s == DeleteOf(key)
        IN  \A i \in DOMAIN s.calls :
                LET c == s.calls[i]
                    d == s.calls[i + 1]
                    n == c.args.n
                    pd == c.node[c.node[n].parent]
                    slot == SlotOf(pd, n)
                    neighbor == IF slot = 0 THEN pd.pointers[1] ELSE pd.pointers[slot - 1]
                    k_prime == IF slot = 0 THEN pd.keys[0] ELSE pd.keys[slot - 1]
                    together == c.node[neighbor].num_keys + c.node[n].num_keys
                    merged == IF c.node[n].is_leaf THEN together ELSE together + 1
                    limit == IF c.node[n].is_leaf THEN order ELSE order - 1
                    repair == IF together < limit THEN "coalesce_nodes"
                              ELSE "redistribute_nodes"
                IN  /\ s.err = "ok"
                    /\ Underfull(s.calls, i) =>
                          /\ i + 1 \in DOMAIN s.calls
                          /\ d.at = "call" /\ d.fn = repair
                          /\ d.node = c.node
                          /\ d.args.n = n
                          /\ d.args.neighbor = neighbor
                          /\ d.args.neighbor_index = slot - 1
                          /\ d.args.k_prime = k_prime
                          /\ c.node[neighbor].is_leaf = c.node[n].is_leaf
                          /\ (repair = "coalesce_nodes") <=> (merged <= order - 1)
                    /\ (c.fn = "remove_entry_from_node" /\ ~Underfull(s.calls, i)) =>
                          \/ i + 1 \notin DOMAIN s.calls
                          \/ d.fn \notin {"coalesce_nodes", "redistribute_nodes"}

\* The last delete went through a coalesce and a redistribute, and a delete
\* is about to repair a leftmost child and, one level up, a node that has a
\* left sibling.
C28_Witness ==
    /\ {"coalesce_nodes", "redistribute_nodes"} \subseteq ev
    /\ root # NULL
    /\ \E key \in DOMAIN live :
          LET s == DeleteOf(key)
          IN  \E i, j \in DOMAIN s.calls :
                /\ s.calls[i].fn = "coalesce_nodes"
                /\ s.calls[i].args.neighbor_index = -1
                /\ s.calls[j].fn \in {"coalesce_nodes", "redistribute_nodes"}
                /\ s.calls[j].at = "call"
                /\ s.calls[j].args.neighbor_index >= 0

\* C29: coalesce keeps the left node of the sibling pair and removes the
\* right one: the survivor receives, if internal, k_prime and then all keys
\* and children of the removed node, every moved child re-parented, or, if
\* a leaf, all keys and records of the removed node and its next-leaf slot;
\* the parent then loses exactly the separator k_prime and the pointer to
\* the removed node; the removed node is freed only after the parent has
\* been updated.
C29_CoalesceKeepsLeft ==
    \A key \in DOMAIN live :
        LET s == DeleteOf(key)
        IN  \A i \in DOMAIN s.calls :
                s.calls[i].fn = "coalesce_nodes" =>
                    LET c == s.calls[i]
                        d == s.calls[i + 1]
                        parent == c.node[c.args.n].parent
                        pd == c.node[parent]
                        n_is_first == SlotOf(pd, c.args.n) = 0
                        left == IF n_is_first THEN c.args.n ELSE c.args.neighbor
                        right == IF n_is_first THEN c.args.neighbor ELSE c.args.n
                        at == SlotOf(pd, right)
                        frees == {f \in DOMAIN s.calls :
                                    s.calls[f].fn = "free" /\ s.calls[f].args.n = right}
                    IN  /\ s.err = "ok"
                        /\ at >= 1 /\ pd.pointers[at - 1] = left
                        /\ pd.keys[at - 1] = c.args.k_prime
                        \* the parent is updated next
                        /\ i + 1 \in DOMAIN s.calls
                        /\ d.fn = "remove_entry_from_node"
                        /\ d.args = [n |-> parent, key |-> c.args.k_prime, pointer |-> right]
                        /\ KeySeq(d.node[parent]) = TakeOut(KeySeq(pd), at)
                        /\ ChildSeq(d.node[parent]) = TakeOut(ChildSeq(pd), at + 1)
                        \* what the survivor holds by then, and at the end
                        /\ d.node[left].used /\ d.node[right].used
                        /\ IF c.node[left].is_leaf
                           THEN /\ PairSeq(d.node[left]) =
                                      PairSeq(c.node[left]) \o PairSeq(c.node[right])
                                /\ d.node[left].pointers[order - 1] =
                                      c.node[right].pointers[order - 1]
                           ELSE /\ KeySeq(d.node[left]) =
                                      KeySeq(c.node[left]) \o <<c.args.k_prime>>
                                                           \o KeySeq(c.node[right])
                                /\ ChildSeq(d.node[left]) =
                                      ChildSeq(c.node[left]) \o ChildSeq(c.node[right])
                                /\ \A m \in Range(ChildSeq(d.node[left])) :
                                      d.node[m].parent = left
                        /\ s.node[left].used
                        /\ KeySeq(s.node[left]) = KeySeq(d.node[left])
                        /\ s.node[left].pointers = d.node[left].pointers
                        \* the removed node is freed once, after that
                        /\ Cardinality(frees) = 1
                        /\ \A f \in frees : f > i + 1 /\ s.calls[f].node[right].used
                        /\ ~s.node[right].used

\* A delete is about to merge two leaves and then two internal nodes, the
\* underfull node being the leftmost child in one of the two merges and not
\* in the other; the last delete has merged nodes as well.
C29_Witness ==
    /\ "coalesce_nodes" \in ev
    /\ \E key \in DOMAIN live :
          LET s == DeleteOf(key)
          IN  \E i, j \in DOMAIN s.calls :
                /\ s.calls[i].fn = "coalesce_nodes"
                /\ s.calls[i].node[s.calls[i].args.n].is_leaf
                /\ s.calls[j].fn = "coalesce_nodes"
                /\ ~s.calls[j].node[s.calls[j].args.n].is_leaf
                /\ s.calls[i].args.neighbor_index # s.calls[j].args.neighbor_index
                /\ -1 \in {s.calls[i].args.neighbor_index, s.calls[j].args.neighbor_index}

\* The keys two siblings and their separator hold, left to right: for leaves
\* the keys of both, for internal nodes the separator between them as well.
KeysAcross(h, left, sep, right) ==
    IF h.node[left].is_leaf
    THEN KeySeq(h.node[left]) \o KeySeq(h.node[right])
    ELSE KeySeq(h.node[left]) \o <<sep>> \o KeySeq(h.node[right])

\* The records or children two siblings hold, left to right.
PointersAcross(h, left, right) ==
    IF h.node[left].is_leaf
    THEN [i \in 1 .. h.node[left].num_keys |-> h.node[left].pointers[i - 1]]
         \o [i \in 1 .. h.node[right].num_keys |-> h.node[right].pointers[i - 1]]
    ELSE ChildSeq(h.node[left]) \o ChildSeq(h.node[right])

UsedNodes(h) == {m \in NodeIds : h.node[m].used}

\* C30: redistribute moves exactly one key and pointer across the boundary
\* of the two siblings: afterwards n has one more key and the neighbor one
\* fewer, both are at or above their minimum, the nodes allocated, the root,
\* the height and the parent's key count and children are unchanged, and in
\* the parent only the separator at k_prime_index is modified.
C30_RedistributeMovesOne ==
    \A key \in DOMAIN live :
        LET s == DeleteOf(key)
        IN  \A i \in DOMAIN s.calls :
                (s.calls[i].fn = "redistribute_nodes" /\ s.calls[i].at = "call") =>
                    LET c == s.calls[i]
                        d == s.calls[i + 1]
                        n == c.args.n
                        neighbor == c.args.neighbor
                        at == c.args.k_prime_index
                        parent == c.node[n].parent
                        n_is_first == SlotOf(c.node[parent], n) = 0
                        left == IF n_is_first THEN n ELSE neighbor
                        right == IF n_is_first THEN neighbor ELSE n
                        is_leaf == c.node[n].is_leaf
                        touched == {n, neighbor, parent} \cup
                                   (IF is_leaf THEN {}
                                    ELSE Range(ChildSeq(c.node[n]))
                                         \cup Range(ChildSeq(c.node[neighbor])))
                    IN  /\ s.err = "ok"
                        /\ i + 1 \in DOMAIN s.calls
                        /\ d.fn = "redistribute_nodes" /\ d.at = "return"
                        /\ c.node[parent].keys[at] = c.args.k_prime
                        /\ c.node[parent].pointers[at] = left
                        /\ c.node[parent].pointers[at + 1] = right
                        \* one key and one pointer change sides
                        /\ d.node[n].num_keys = c.node[n].num_keys + 1
                        /\ d.node[neighbor].num_keys = c.node[neighbor].num_keys - 1
                        /\ KeysAcross(d, left, d.node[parent].keys[at], right) =
                              KeysAcross(c, left, c.args.k_prime, right)
                        /\ PointersAcross(d, left, right) = PointersAcross(c, left, right)
                        /\ is_leaf => d.node[parent].keys[at] = d.node[right].keys[0]
                        /\ is_leaf => d.node[right].pointers[order - 1] =
                                         c.node[right].pointers[order - 1]
                        /\ is_leaf => d.node[left].pointers[order - 1] = right
                        /\ ~is_leaf =>
                              /\ \A m \in Range(ChildSeq(d.node[n])) : d.node[m].parent = n
                              /\ \A m \in Range(ChildSeq(d.node[neighbor])) :
                                    d.node[m].parent = neighbor
                        \* both are large enough
                        /\ d.node[n].num_keys >= MinOccupancy(is_leaf)
                        /\ d.node[neighbor].num_keys >= MinOccupancy(is_leaf)
                        \* the rest of the tree
                        /\ UsedNodes(d) = UsedNodes(c)
                        /\ d.root = c.root
                        /\ ytree_height(AsOf(d)) = ytree_height(AsOf(c))
                        /\ \A m \in NodeIds \ touched : d.node[m] = c.node[m]
                        \* the parent
                        /\ d.node[parent].num_keys = c.node[parent].num_keys
                        /\ d.node[parent].pointers = c.node[parent].pointers
                        /\ d.node[parent].parent = c.node[parent].parent
                        /\ d.node[parent].keys[at] # c.node[parent].keys[at]
                        /\ \A j \in DOMAIN c.node[parent].keys :
                              j # at => d.node[parent].keys[j] = c.node[parent].keys[j]

\* The last delete, at order 4, merged two leaves and then redistributed
\* between two internal nodes; a delete is about to redistribute between two
\* leaves.
C30_Witness ==
    /\ order = 4
    /\ {"coalesce_nodes", "redistribute_nodes"} \subseteq ev
    /\ ytree_height(Machine) = 2
    /\ \E key \in DOMAIN live :
          LET s == DeleteOf(key)
          IN  \E i \in DOMAIN s.calls :
                /\ s.calls[i].fn = "redistribute_nodes"
                /\ s.calls[i].node[s.calls[i].args.n].is_leaf

\* C31: after a redistribute the parent's separator between the two siblings
\* is, for leaves, the first key of the right-hand sibling (n's new first key
\* when the neighbor is on the left, the neighbor's new first key when it is
\* on the right) and, for internal nodes, the key vacated at the neighbor's
\* boundary (its old last key when on the left, its old first key when on
\* the right), while k_prime moves down into n next to the transferred
\* child, whose parent pointer is set to n.
C31_SeparatorAfterRedistribute ==
    \A key \in DOMAIN live :
        LET s == DeleteOf(key)
        IN  \A i \in DOMAIN s.calls :
                (s.calls[i].fn = "redistribute_nodes" /\ s.calls[i].at = "call") =>
                    LET c == s.calls[i]
                        d == s.calls[i + 1]
                        n == c.args.n
                        neighbor == c.args.neighbor
                        parent == c.node[n].parent
                        separator == d.node[parent].keys[c.args.k_prime_index]
                        on_left == c.args.neighbor_index # -1
                        n_keys == c.node[n].num_keys
                        b_keys == c.node[neighbor].num_keys
                        child == IF on_left THEN c.node[neighbor].pointers[b_keys]
                                 ELSE c.node[neighbor].pointers[0]
                    IN  /\ s.err = "ok"
                        /\ d.fn = "redistribute_nodes" /\ d.at = "return"
                        /\ on_left <=> SlotOf(c.node[parent], neighbor) < SlotOf(c.node[parent], n)
                        /\ IF c.node[n].is_leaf
                           THEN IF on_left
                                THEN /\ separator = d.node[n].keys[0]
                                     /\ separator = c.node[neighbor].keys[b_keys - 1]
                                ELSE /\ separator = d.node[neighbor].keys[0]
                                     /\ separator = c.node[neighbor].keys[1]
                                     /\ d.node[n].keys[n_keys] = c.node[neighbor].keys[0]
                           ELSE /\ c.node[child].parent = neighbor
                                /\ d.node[child].parent = n
                                /\ IF on_left
                                   THEN /\ separator = c.node[neighbor].keys[b_keys - 1]
                                        /\ d.node[n].keys[0] = c.args.k_prime
                                        /\ d.node[n].pointers[0] = child
                                   ELSE /\ separator = c.node[neighbor].keys[0]
                                        /\ d.node[n].keys[n_keys] = c.args.k_prime
                                        /\ d.node[n].pointers[n_keys + 1] = child

\* A delete is about to redistribute between two leaves with the neighbor on
\* the right, after a delete that redistributed.
C31_Witness ==
    /\ "redistribute_nodes" \in ev
    /\ \E key \in DOMAIN live :
          LET s == DeleteOf(key)
          IN  \E i \in DOMAIN s.calls :
                /\ s.calls[i].fn = "redistribute_nodes"
                /\ s.calls[i].at = "call"
                /\ s.calls[i].args.neighbor_index = -1
                /\ s.calls[i].node[s.calls[i].args.n].is_leaf

\* C32: after an entry is removed from the root, a root that still has keys
\* stays the root; an internal root with no key is freed and its single
\* remaining child becomes the root, with parent NULL, the height dropping by
\* one; a leaf root with no key is freed and the tree becomes empty.  At
\* order 3, after 10, 20, 30 were inserted and 30, then 20 deleted, the root
\* is the single leaf {10} and the height is 0.
C32_AdjustRoot ==
    /\ \A key \in DOMAIN live :
          LET s == DeleteOf(key)
          IN  \A i \in DOMAIN s.calls :
                  (s.calls[i].fn = "remove_entry_from_node"
                   /\ s.calls[i].args.n = s.calls[i].root) =>
                      LET c == s.calls[i]
                          r == c.root
                          child == c.node[r].pointers[0]
                      IN  /\ s.err = "ok"
                          /\ c.node[r].num_keys > 0 =>
                                /\ s.root = r
                                /\ s.node[r] = c.node[r]
                                /\ ytree_height(s) = ytree_height(AsOf(c))
                          /\ (c.node[r].num_keys = 0 /\ ~c.node[r].is_leaf) =>
                                /\ s.root = child
                                /\ c.node[child].parent = r
                                /\ s.node[child].used
                                /\ s.node[child].parent = NULL
                                /\ ~s.node[r].used
                                /\ ytree_height(s) = ytree_height(AsOf(c)) - 1
                          /\ (c.node[r].num_keys = 0 /\ c.node[r].is_leaf) =>
                                /\ s.root = NULL
                                /\ ~s.node[r].used
                                /\ UsedNodes(s) = {}
    /\ Deleted(3, <<10, 20, 30>>, <<30, 20>>) =>
          /\ err = "ok"
          /\ "adjust_root" \in ev
          /\ root # NULL /\ node[root].used /\ node[root].is_leaf
          /\ node[root].parent = NULL
          /\ KeySeq(node[root]) = <<10>>
          /\ ytree_height(Machine) = 0
          /\ ytree_count(Machine) = 1
          /\ \A key \in DOMAIN live : DeleteOf(key).root = NULL <=> key = 10

C32_Witness ==
    /\ Deleted(3, <<10, 20, 30>>, <<30, 20>>)
    /\ "adjust_root" \in ev
    /\ live[10] # NULL

\* The separators of n's ancestors leave room for key at n: at every step up
\* from n, the separator left of the child taken is at most key and the
\* separator right of it is above key.
RECURSIVE CanHold(_, _, _)
CanHold(n, key, fuel) ==
    LET p == node[n].parent
        i == SlotOf(node[p], n)
    IN  IF p = NULL \/ fuel = 0 THEN n = root
        ELSE /\ IsNode(p) /\ n \in Children(p)
             /\ i = 0 \/ node[p].keys[i - 1] <= key
             /\ i = node[p].num_keys \/ key < node[p].keys[i]
             /\ CanHold(p, key, fuel - 1)

\* The internal nodes find_leaf passes on its way down to leaf n.
RECURSIVE Above(_, _)
Above(n, fuel) ==
    IF node[n].parent = NULL \/ fuel = 0 THEN {}
    ELSE {node[n].parent} \cup Above(node[n].parent, fuel - 1)

\* C33: at an internal node find_leaf enters child i for the first i with
\* key < keys[i], or the rightmost child if there is none; a key equal to a
\* separator keys[i] goes to child i+1; find, insert and delete of one key
\* reach the same leaf, which is the only leaf that can hold the key.
C33_Descent ==
    root # NULL =>
        /\ \A m \in Internals : \A i \in 0 .. (node[m].num_keys - 1) :
              child_index(node[m], node[m].keys[i]) = i + 1
        /\ \A key \in DOMAIN live :
              LET leaf == find_leaf(Machine, key)
                  holds == key \in NodeKeys(leaf)
                  ins == InsertOf(key)
                  del == DeleteOf(key)
              IN  /\ leaf \in Leaves
                  \* the child taken at every node above the leaf
                  /\ \A m \in Above(leaf, NumNodes) :
                        LET before == {i \in 0 .. (node[m].num_keys - 1) :
                                          key < node[m].keys[i]}
                            taken == child_index(node[m], key)
                        IN  /\ taken = IF before = {} THEN node[m].num_keys
                                       ELSE Min(before)
                            /\ taken = Cardinality({i \in 0 .. (node[m].num_keys - 1) :
                                                      node[m].keys[i] <= key})
                            /\ node[m].pointers[taken] \in Above(leaf, NumNodes) \cup {leaf}
                  \* it is the only leaf that can hold the key
                  /\ {n \in Leaves : CanHold(n, key, NumNodes)} = {leaf}
                  /\ \A n \in Leaves \ {leaf} : key \notin NodeKeys(n)
                  \* find, insert and delete work on it
                  /\ ytree_find(Machine, key) # NULL <=> holds
                  /\ holds => /\ del.calls # <<>>
                              /\ del.calls[1].fn = "remove_entry_from_node"
                              /\ del.calls[1].args.n = leaf
                              /\ ins.node = node
                  /\ ~holds =>
                        /\ del.node = node
                        /\ IF node[leaf].num_keys < order - 1
                           THEN /\ ins.calls = <<>>
                                /\ Range(KeySeq(ins.node[leaf])) = NodeKeys(leaf) \cup {key}
                                /\ \A n \in NodeIds \ {leaf} : ins.node[n] = node[n]
                           ELSE /\ ins.calls[1].fn = "insert_into_leaf_after_splitting"
                                /\ ins.calls[1].args.leaf = leaf

\* The tree has two levels of internal nodes, and a key equal to a separator
\* of the root is stored below the child right of that separator.
C33_Witness ==
    /\ root # NULL /\ ~node[root].is_leaf
    /\ \E c \in Children(root) : ~node[c].is_leaf
    /\ \E i \in 0 .. (node[root].num_keys - 1) :
          LET key == node[root].keys[i]
              leaf == find_leaf(Machine, key)
          IN  /\ key \in DOMAIN live /\ live[key] # NULL
              /\ key \in NodeKeys(leaf)
              /\ leaf \in Under(node[root].pointers[i + 1])
              /\ DeleteOf(key).calls[1].args.n = leaf

\* The places in a call history where the release hook is called.
HookCalls(calls) == {i \in DOMAIN calls : calls[i].fn = "release_callback"}

\* C34: with a release hook set, the delete of a present key whose record is
\* a blob first takes the entry out of the tree, rebalancing included, then
\* calls the hook once with that record's payload, then frees the record; for
\* a record that is no blob and for an absent key the hook is not called.
C34_HookAfterRemoval ==
    (err = "ok" /\ ~db_freed /\ release_callback # NULL) =>
        \A key \in DOMAIN live :
            LET s == DeleteOf(key)
                r == ytree_find(Machine, key)
                hooks == HookCalls(s.calls)
            IN  IF r # NULL /\ is_data(r)
                THEN /\ s.err = "ok"
                     /\ hooks = {Len(s.calls)}
                     /\ s.released = <<r>>
                     /\ s.calls[1].fn = "remove_entry_from_node"
                     /\ LET c == s.calls[Len(s.calls)]
                        IN  /\ c.args.pointer = r
                            \* the tree is already as the delete leaves it
                            /\ c.root = s.root /\ c.node = s.node
                            /\ ytree_find(AsOf(c), key) = NULL
                            \* the record is freed after the hook has run
                            /\ r \in c.recs
                            /\ c.recs = recs
                            /\ s.recs = recs \ {r}
                ELSE /\ hooks = {}
                     /\ s.released = <<>>
                     /\ r = NULL => s.node = node /\ s.root = root /\ s.recs = recs
                     /\ r # NULL => /\ ytree_find(s, key) = NULL
                                    /\ s.recs = recs \ {r}

\* A blob record whose delete makes the tree coalesce, a record that is no
\* blob and an absent key are at hand, and the last call was a delete that
\* called the hook.
C34_Witness ==
    /\ err = "ok" /\ ~db_freed /\ release_callback # NULL
    /\ released # <<>>
    /\ \E key \in DOMAIN live :
          /\ live[key] # NULL /\ is_data(live[key])
          /\ \E i \in DOMAIN DeleteOf(key).calls : DeleteOf(key).calls[i].fn = "coalesce_nodes"
    /\ \E key \in DOMAIN live : live[key] # NULL /\ ~is_data(live[key])
    /\ \E key \in DOMAIN live : live[key] = NULL

\* The places in the history of an insert where the split cascade has reached
\* a node without a parent, the root.
RootSplits(calls) ==
    {i \in DOMAIN calls : /\ calls[i].fn = "insert_into_parent"
                          /\ calls[i].node[calls[i].args.left].parent = NULL}

\* C35: an insert raises the height by exactly one when its split cascade
\* splits the root (the new root has one key and two children, both with the
\* new root as parent) and leaves the height as it is otherwise; a delete
\* lowers the height by one when adjust_root promotes the only child of the
\* root, leaves it as it is otherwise, and never raises it.
C35_HeightStep ==
    (err = "ok" /\ ~db_freed) =>
        \A key \in DOMAIN live :
            LET h == ytree_height(Machine)
                ins == InsertOf(key)
                del == DeleteOf(key)
                splits == RootSplits(ins.calls)
            IN  /\ ins.err = "ok" =>
                      IF splits # {}
                      THEN LET c == ins.calls[Min(splits)]
                               r == ins.root
                           IN  /\ splits = {Len(ins.calls)}
                               /\ c.args.left = root
                               /\ "insert_into_new_root" \in ins.ev
                               /\ ytree_height(ins) = h + 1
                               /\ ~node[r].used
                               /\ ins.node[r].num_keys = 1
                               /\ ~ins.node[r].is_leaf
                               /\ ins.node[r].parent = NULL
                               /\ ins.node[r].keys[0] = c.args.key
                               /\ ins.node[r].pointers[0] = root
                               /\ ins.node[r].pointers[1] = c.args.right
                               /\ ins.node[root].parent = r
                               /\ ins.node[c.args.right].parent = r
                      ELSE /\ ytree_height(ins) = h
                           /\ "insert_into_new_root" \notin ins.ev
                           /\ root # NULL => ins.root = root
                /\ del.err = "ok"
                /\ IF "adjust_root" \in del.ev /\ ~node[root].is_leaf
                   THEN /\ ytree_height(del) = h - 1
                        /\ del.root = node[root].pointers[0]
                        /\ del.node[del.root].parent = NULL
                        /\ ~del.node[root].used
                   ELSE /\ ytree_height(del) = h
                        /\ del.root = root \/ (del.root = NULL /\ h = 0)

\* The last call was an insert whose cascade split the root of a tree of
\* height 1; one delete would now lower the height again, another would not.
C35_Witness ==
    /\ err = "ok" /\ ~db_freed
    /\ "insert_into_new_root" \in ev
    /\ ytree_height(Machine) = 2
    /\ \E key \in DOMAIN live : ytree_height(DeleteOf(key)) = 1
    /\ \E key \in DOMAIN live : live[key] # NULL /\ ytree_height(DeleteOf(key)) = 2
    /\ \E key \in DOMAIN live : live[key] = NULL /\ ytree_height(InsertOf(key)) = 2

\* The nodes the child slots, the parent pointer and the next-leaf slot of
\* the allocated node n refer to.
RefersTo(n) ==
    {node[n].parent} \cup
    (IF node[n].is_leaf THEN {node[n].pointers[order - 1]} ELSE Children(n))

\* The nodes a delete frees in coalesce_nodes, in the order it frees them:
\* coalesce_nodes frees its node after the delete_entry on the parent has
\* returned, so the node merged last is freed first.
FreedByCoalesce(calls) ==
    SelectSeq(calls, LAMBDA c : c.fn = "free")

\* C36: after every insert, delete or purge the allocated nodes are exactly
\* the nodes reachable from the root through child pointers, and no child
\* slot, parent pointer or next-leaf slot refers to a freed node; a delete
\* frees each node emptied by coalesce and a root dropped by adjust_root
\* once, and nothing else.
C36_NoLeakNoDangling ==
    (err = "ok" /\ ~db_freed) =>
        /\ UsedNodes(Machine) = (IF root = NULL THEN {} ELSE Reachable)
        /\ \A n \in UsedNodes(Machine) :
              RefersTo(n) \subseteq UsedNodes(Machine) \cup {NULL}
        /\ \A key \in DOMAIN live :
              LET del == DeleteOf(key)
                  ins == InsertOf(key)
                  freed == FreedByCoalesce(del.calls)
                  merged == SelectSeq(del.calls, LAMBDA c : c.fn = "coalesce_nodes")
                  dropped == IF "adjust_root" \in del.ev THEN {root} ELSE {}
              IN  /\ del.err = "ok"
                  /\ Len(freed) = Len(merged)
                  /\ \A i \in DOMAIN freed :
                        /\ freed[i].node[freed[i].args.n].used
                        /\ freed[i].args.n \in {merged[Len(merged) + 1 - i].args.n,
                                              merged[Len(merged) + 1 - i].args.neighbor}
                        /\ \A j \in DOMAIN freed : freed[j].args.n = freed[i].args.n => j = i
                  /\ UsedNodes(Machine) \ UsedNodes(del) =
                        {freed[i].args.n : i \in DOMAIN freed} \cup dropped
                  /\ UsedNodes(del) \subseteq UsedNodes(Machine)
                  /\ ins.err = "ok" => UsedNodes(Machine) \subseteq UsedNodes(ins)

\* The last call was a delete that freed a coalesced node and dropped the
\* root; the tree still has internal nodes, and a next delete frees again.
C36_Witness ==
    /\ err = "ok" /\ ~db_freed
    /\ {"coalesce_nodes", "adjust_root"} \subseteq ev
    /\ root # NULL /\ ~node[root].is_leaf
    /\ \E n \in NodeIds : ~node[n].used
    /\ \E key \in DOMAIN live : Len(FreedByCoalesce(DeleteOf(key).calls)) >= 1

\* The first cell of a whole array (a function on 0 .. order-1 or order-2)
\* that holds x, as an unbounded scan from cell 0 finds it; -1 if none does.
FirstCell(arr, x) ==
    LET hit == {i \in DOMAIN arr : arr[i] = x}
    IN  IF hit = {} THEN -1 ELSE Min(hit)

\* The heap as it was when the i-th entry of a delete's history, a return of
\* remove_entry_from_node, was entered: the first removal starts from the
\* present heap, a later one from the heap coalesce_nodes was called with,
\* whose parent node is untouched until then.
HeapBefore(calls, i) == IF i = 1 THEN node ELSE calls[i - 1].node

\* C37: no sequence of public calls on a fresh tree reaches a structural
\* violation: get_neighbor_index finds n among the num_keys+1 children of its
\* parent, get_left_index returns an index <= num_keys of the parent, and
\* remove_entry_from_node finds its key within keys[0..num_keys-1] and its
\* pointer within the valid pointer slots.
C37_NoStructuralViolation ==
    /\ err = "ok"
    /\ "remove_entry_from_node beyond num_keys" \notin ev
    /\ ~db_freed =>
          \A key \in DOMAIN live :
              LET del == DeleteOf(key)
                  ins == InsertOf(key)
              IN  /\ del.err = "ok"
                  /\ ins.err \in {"ok", "out of memory"}
                  /\ \A i \in DOMAIN del.calls :
                        LET c == del.calls[i]
                        IN  /\ c.fn = "remove_entry_from_node" =>
                                  LET nd == HeapBefore(del.calls, i)[c.args.n]
                                      ki == FirstCell(nd.keys, c.args.key)
                                      pi == FirstCell(nd.pointers, c.args.pointer)
                                  IN  /\ nd.used
                                      /\ ki >= 0 /\ ki < nd.num_keys
                                      /\ pi >= 0
                                      /\ pi < (IF nd.is_leaf THEN nd.num_keys
                                                             ELSE nd.num_keys + 1)
                            /\ c.fn \in {"coalesce_nodes", "redistribute_nodes"} =>
                                  LET pd == c.node[c.node[c.args.n].parent]
                                      at == c.args.neighbor_index + 1
                                  IN  /\ pd.used
                                      /\ at \in 0 .. pd.num_keys
                                      /\ pd.pointers[at] = c.args.n
                                      /\ get_neighbor_index(AsOf(c), c.args.n) = at - 1
                  /\ \A i \in DOMAIN ins.calls :
                        LET c == ins.calls[i]
                            parent == c.node[c.args.left].parent
                        IN  (c.fn = "insert_into_parent" /\ parent # NULL) =>
                                LET left_index == get_left_index(c.node[parent], c.args.left)
                                IN  /\ c.node[parent].used
                                    /\ left_index <= c.node[parent].num_keys
                                    /\ c.node[parent].pointers[left_index] = c.args.left

\* The last call restructured the tree; from here one delete removes an entry
\* from a leaf and, after a coalesce of a leftmost child, from its parent,
\* another delete meets a node with a left neighbor, and one insert splits
\* a leaf whose parent takes the new node in.
C37_Witness ==
    /\ err = "ok" /\ ~db_freed /\ ev # {}
    /\ \E key \in DOMAIN live :
          LET calls == DeleteOf(key).calls
          IN  /\ Len(calls) >= 3
              /\ calls[2].fn = "coalesce_nodes" /\ calls[2].args.neighbor_index = -1
              /\ calls[3].fn = "remove_entry_from_node"
              /\ ~HeapBefore(calls, 3)[calls[3].args.n].is_leaf
    /\ \E key \in DOMAIN live :
          LET calls == DeleteOf(key).calls
          IN  /\ Len(calls) >= 2
              /\ calls[2].fn \in {"coalesce_nodes", "redistribute_nodes"}
              /\ calls[2].args.neighbor_index >= 0
    /\ \E key \in DOMAIN live :
          LET calls == InsertOf(key).calls
          IN  \E i \in DOMAIN calls :
                /\ calls[i].fn = "insert_into_parent"
                /\ calls[i].node[calls[i].args.left].parent # NULL

\* The number of parent links from node n up to the root in heap h: 0 for
\* the root.
RECURSIVE Level(_, _, _)
Level(h, n, fuel) ==
    IF h[n].parent = NULL \/ fuel = 0 THEN 0 ELSE 1 + Level(h, h[n].parent, fuel - 1)

\* The places of the entries of function fn in a call history, in order.
Places(calls, fn) ==
    LET RECURSIVE from(_)
        from(i) == IF i > Len(calls) THEN <<>>
                   ELSE IF calls[i].fn = fn THEN <<i>> \o from(i + 1)
                   ELSE from(i + 1)
    IN  from(1)

\* The split cascade of an insert: every insert_into_parent works one level
\* above the one before, the first on the leaf, and the last either has
\* reached the root or meets a parent with room for one more key.
SplitCascade(calls, h, leaf) ==
    LET at == Places(calls, "insert_into_parent")
    IN  /\ Len(at) <= h + 1
        /\ \A k \in DOMAIN at :
              LET c == calls[at[k]]
                  parent == c.node[c.args.left].parent
              IN  /\ Level(c.node, c.args.left, NumNodes) = h - (k - 1)
                  /\ k = 1 => c.args.left = leaf
                  /\ k < Len(at) =>
                        /\ parent # NULL
                        /\ c.node[parent].num_keys = order - 1
                        /\ calls[at[k + 1]].args.left = parent
                  /\ k = Len(at) =>
                        \/ parent = NULL
                        \/ c.node[parent].num_keys < order - 1

\* The coalesce cascade of a delete: every delete_entry (one removal each)
\* works one level above the one before, the first on the leaf; a removal
\* that leaves the root, or a node not below its minimum, is the last step,
\* a coalesce is followed by the removal from the parent, and after a
\* redistribute nothing but its return and the pending frees follows.
CoalesceCascade(calls, h, leaf) ==
    LET at == Places(calls, "remove_entry_from_node")
    IN  /\ Len(at) <= h + 1
        /\ \A k \in DOMAIN at :
              LET c == calls[at[k]]
                  before == HeapBefore(calls, at[k])
              IN  /\ Level(before, c.args.n, NumNodes) = h - (k - 1)
                  /\ k = 1 => at[k] = 1 /\ c.args.n = leaf
                  /\ k < Len(at) =>
                        /\ at[k + 1] = at[k] + 2
                        /\ calls[at[k] + 1].fn = "coalesce_nodes"
                        /\ calls[at[k + 1]].args.n = before[c.args.n].parent
                  /\ ~Underfull(calls, at[k]) =>
                        /\ k = Len(at)
                        /\ \A j \in (at[k] + 1) .. Len(calls) : calls[j].fn = "free"
        /\ \A i \in DOMAIN calls :
              (calls[i].fn = "redistribute_nodes" /\ calls[i].at = "call") =>
                  /\ i + 1 \in DOMAIN calls
                  /\ calls[i + 1].fn = "redistribute_nodes" /\ calls[i + 1].at = "return"
                  /\ \A j \in (i + 2) .. Len(calls) : calls[j].fn = "free"

\* Every insert and every delete that can be called in this state runs a
\* cascade of at most height+1 levels.
CascadesBounded ==
    (err = "ok" /\ ~db_freed) =>
        \A key \in DOMAIN live :
            LET h == ytree_height(Machine)
                leaf == find_leaf(Machine, key)
            IN  /\ SplitCascade(InsertOf(key).calls, h, leaf)
                /\ CoalesceCascade(DeleteOf(key).calls, h, leaf)

(* ------------------ main, one cascade level at a time ------------------ *)

\* main as in InitScript; script.call is the call of ytree_insert or
\* ytree_delete main is in, and <<>> between two calls.  Nothing else runs
\* while the call does, so the tree it is entered with fixes what it does:
\* the call record carries the length of its history, the number of entries
\* passed so far and the machine state it will leave behind.
InitSteps ==
    /\ order = ytree_db_init.order
    /\ root = ytree_db_init.root
    /\ node = [n \in NodeIds |-> FreeNode]
    /\ recs = {}
    /\ err = "ok"
    /\ ev = {}
    /\ release_callback = NULL
    /\ released = <<>>
    /\ db_freed = FALSE
    /\ \E sc \in Scenarios :
          /\ script = [order |-> sc.order, keys |-> sc.keys, todo |-> sc.keys,
                       ordered |-> FALSE, deleted |-> <<>>, call |-> <<>>]
          /\ live = [k \in Range(sc.keys) |-> NULL]

\* The history of a call of fn with key on the present tree.
HistoryOf(fn, key) ==
    IF fn = "ytree_insert" THEN InsertOf(key).calls ELSE DeleteOf(key).calls

\* The call of fn with key, just entered, that will leave the machine state s.
Entered(fn, key, s) ==
    [fn |-> fn, key |-> key, at |-> 0, len |-> Len(s.calls),
     leaves |-> [s EXCEPT !.calls = <<>>]]

\* main enters ytree_insert with the next key of the input file.
EnterInsert ==
    /\ err = "ok"
    /\ script.ordered /\ script.call = <<>>
    /\ script.todo # <<>>
    /\ script' = [script EXCEPT
                    !.call = Entered("ytree_insert", Head(script.todo),
                                     InsertOf(Head(script.todo)))]
    /\ UNCHANGED <<order, root, node, recs, err, ev, live, release_callback, released,
                   db_freed>>

\* main enters ytree_delete with a key typed at the prompt.
EnterDelete(key) ==
    /\ err = "ok"
    /\ script.ordered /\ script.call = <<>>
    /\ script.todo = <<>>
    /\ Len(script.deleted) < MaxScriptDeletes
    /\ key \in Range(script.keys)
    /\ script' = [script EXCEPT !.call = Entered("ytree_delete", key, DeleteOf(key))]
    /\ UNCHANGED <<order, root, node, recs, err, ev, live, release_callback, released,
                   db_freed>>

\* The call goes on to the next entry of its history: one more function of
\* the cascade is entered or left.
CascadeStep ==
    /\ script.call # <<>>
    /\ script.call.at < script.call.len
    /\ script' = [script EXCEPT !.call.at = @ + 1]
    /\ UNCHANGED <<order, root, node, recs, err, ev, live, release_callback, released,
                   db_freed>>

\* The call returns to main, which sees the tree as the call leaves it.
Return ==
    /\ script.call # <<>>
    /\ script.call.at = script.call.len
    /\ Commit(script.call.leaves)
    /\ IF script.call.fn = "ytree_insert"
       THEN /\ live' = IF live[script.call.key] = NULL
                       THEN [live EXCEPT ![script.call.key] =
                                            make_record(Machine, script.call.key)]
                       ELSE live
            /\ script' = [script EXCEPT !.todo = Tail(@), !.call = <<>>]
       ELSE /\ live' = [live EXCEPT ![script.call.key] = NULL]
            /\ script' = [script EXCEPT !.deleted = Append(@, script.call.key),
                                        !.call = <<>>]

NextSteps ==
    \/ ScriptOrder
    \/ EnterInsert
    \/ \E key \in ScriptKeys : EnterDelete(key)
    \/ CascadeStep
    \/ Return

\* Control flow is synchronous: a call that has been entered runs on, on the
\* calling thread, until it returns.
SpecSteps ==
    InitSteps /\ [][NextSteps]_vars /\ WF_vars(CascadeStep) /\ WF_vars(Return)

InCall == script.call # <<>>

\* C38: every insert and every delete terminates: the split cascade and the
\* coalesce cascade move one level towards the root per step and stop at the
\* root at the latest, so each runs at most height+1 levels, and a
\* redistribute or a node that is not underfull ends the cascade at once.
C38_CascadesTerminate ==
    /\ []CascadesBounded
    /\ InCall ~> ~InCall

\* main is in a delete on a tree of height 2, two levels up in a coalesce
\* cascade that goes on to the root.
C38_Witness ==
    /\ InCall
    /\ script.call.fn = "ytree_delete"
    /\ ytree_height(Machine) = 2
    /\ script.call.at = 3
    /\ Len(Places(HistoryOf("ytree_delete", script.call.key), "remove_entry_from_node")) = 3

=========================================================================
